---------------------------- MODULE Spec2Model ----------------------------
(***************************************************************************)
(* A model of the Trino Go client (src/trino/trino.go):                    *)
(*   - Conn.newRequest / Conn.roundTrip: request decoration, retry with    *)
(*     backoff, ingestion of the response headers into the connection;     *)
(*   - driverRows: Next / Columns / Close / fetch over the paging loop;    *)
(*   - the spooling pipeline: dispatcher, download workers, decoder        *)
(*     workers, ordered streamer.                                          *)
(* Strings that the code inspects character by character (header values)   *)
(* are sequences of one-character strings.  Durations are in milliseconds. *)
(***************************************************************************)
EXTENDS Integers, Sequences, FiniteSets, TLC

VARIABLES
    \* ---- Conn (src/trino/trino.go:305-318, 569-664)
    httpHeaders,    \* Conn.httpHeaders: header name -> list of values
    cpc,            \* where the caller of newRequest/roundTrip stands
    req,            \* the request built by newRequest (its header map)
    reqHs,          \* the per-call headers hs given to newRequest
    ctxDone,        \* the context given to roundTrip is cancelled
    srv,            \* what the server will answer to the request in flight
    delay,          \* roundTrip's local delay
    waits,          \* the arguments of timer.Reset so far in this roundTrip
    lastResp,       \* the response the last httpClient.Do returned
    result,         \* what roundTrip returned: [resp, err]
    hdrsBefore,     \* Conn.httpHeaders when the request in flight was built
    lastSet,        \* last non-empty Set-Catalog / Set-Schema value ingested
    env             \* the environment's limits for this connection

connVars == <<httpHeaders, cpc, req, reqHs, ctxDone, srv, delay, waits,
              lastResp, result, hdrsBefore, lastSet, env>>

\* ---- driverRows over the paging loop of driverStmt.exec
VARIABLES
    pages,          \* the pages the coordinator serves after the POST, in order
    fpc,            \* the fetcher goroutine of exec (trino.go:1135-1172)
    fUri,           \* the nextURI the fetcher holds (0 is the empty URI)
    ppc,            \* the parser goroutine of exec (trino.go:1173-1214)
    pPage,          \* the page the parser holds
    qpc,            \* the caller: in exec, in fetch on behalf of an operation, or idle
    qrErr,          \* driverRows.err
    qrColumns,      \* driverRows.columns != nil
    qrData,         \* len(driverRows.data)
    rowindex,       \* driverRows.rowindex
    qrNextURI,      \* driverRows.nextURI
    delivered,      \* the rows Next has returned: <<page, row>>, in order
    eofProduced,    \* io.EOF was produced for this iterator (by fetch or by Next)
    qrPage,         \* the page driverRows.data was taken from
    ret,            \* the last operation on the iterator and what it returned
    closes,         \* what each driverRows.Close call did
    deletes         \* the DELETE /v1/query/{id} requests issued

rowsVars == <<pages, fpc, fUri, ppc, pPage, qpc, qrErr, qrColumns, qrData,
              rowindex, qrNextURI, delivered, eofProduced, qrPage, ret, closes,
              deletes>>

\* ---- the spooling pipeline (trino.go:1773-1838, 1898-2159)
VARIABLES
    segs,           \* the segments of the spooled responses, as listed
    cfg,            \* spoolingMaxOutOfOrderSegments and spoolingWorkerCount
    rpc,            \* the response processor: queueing, then the join steps
    qi,             \* index of the next segment to queue
    toProcess,      \* channel segmentsToProccess
    dpc,            \* the segment dispatcher
    dseg,           \* the segment the dispatcher holds
    tokens,         \* number of tokens in segmentThrottleCh
    admitted,       \* segments for which the dispatcher pushed a token
    released,       \* segments after whose emission the streamer took a token
    metaCh,         \* channel spooledSegmentsMetadata
    toDecode,       \* channel spooledSegmentsToDecode
    dl,             \* the download workers: idle count, segments held, errors
    dec,            \* the decoder workers: idle count, segments held, errors
    dlCancelled,    \* cancelDownloadWorkers was called
    decCancelled,   \* cancelDecodersWorkers was called
    spc,            \* the ordered streamer
    buffer,         \* its reorder buffer
    consumed,       \* its local consumed
    nextExpectedOffset,
    emitted         \* the segments whose rows were put on spoolingRowsChannel

pipeVars == <<segs, cfg, rpc, qi, toProcess, dpc, dseg, tokens, admitted,
              released, metaCh, toDecode, dl, dec, dlCancelled, decCancelled,
              spc, buffer, consumed, nextExpectedOffset, emitted>>

\* ---- the context given to QueryContext
VARIABLES
    qctx            \* "live", or cancelled by the caller: "cancelled_reading"
                    \* if that was while rows were being read (QueryContext
                    \* had returned the iterator and it held no error)

\* ---- single calls followed on their own
VARIABLES
    hr,             \* a decoded response on its way through handleResponseError
    arrivals,       \* decoded segments still to reach the streamer, in order
    xc,             \* the settings driverStmt.exec keeps on the connection
                    \* and the statement, and how its last call ended
    prog,           \* the progress goroutine of a statement and the calls
                    \* that report statistics to it
    sf,             \* one call of SegmentFetcher.fetchSegment
    cl,             \* the goroutines of a statement and driverStmt.Close
    codec           \* one call of decodeSegment: its arguments and result

auxVars == <<hr, arrivals, xc, prog, sf, cl, codec>>
nonAuxVars == <<connVars, rowsVars, qctx, pipeVars>>

nonConnVars == <<rowsVars, qctx, pipeVars, auxVars>>
nonRowsVars == <<connVars, pipeVars, auxVars>>
nonPipeVars == <<connVars, qctx, auxVars>>
nonHrVars == <<nonAuxVars, arrivals, xc, prog, sf, cl, codec>>
nonXcVars == <<nonAuxVars, hr, arrivals, prog, sf, cl, codec>>
nonPgVars == <<nonAuxVars, hr, arrivals, xc, sf, cl, codec>>
nonSfVars == <<nonAuxVars, hr, arrivals, xc, prog, cl, codec>>
nonClVars == <<nonAuxVars, hr, arrivals, xc, prog, sf, codec>>
nonCodecVars == <<nonAuxVars, hr, arrivals, xc, prog, sf, cl>>

vars == <<connVars, rowsVars, qctx, pipeVars, auxVars>>

\* none of the calls followed on their own is in progress
HrIdle == hr = [pc |-> "none"]
ArrivalsIdle == arrivals = <<>>
XcIdle ==
    xc = [updater |-> FALSE, period |-> 0, workers |-> 0, bound |-> 0,
          out |-> "none", started |-> FALSE]

PgIdle ==
    prog = [gpc |-> "none", epc |-> "none", next |-> 0, cur |-> 0,
            got |-> <<>>, done |-> FALSE, spooled |-> FALSE, period |-> 0,
            now |-> 0, last |-> 0, lastState |-> "", chClosed |-> FALSE,
            fieldNil |-> FALSE,
            call |-> [n |-> 0, now |-> 0, last |-> 0, lastState |-> "",
                      state |-> "", skipped |-> FALSE, sent |-> "none"],
            panicked |-> FALSE]

SfIdle ==
    sf = [pc |-> "none", retries |-> 0, delayK |-> 0, tried |-> <<>>,
          result |-> "none", fspc |-> "none", out |-> "none",
          ack |-> "none"]

ClIdle == cl = [cpc |-> "none"]

CodecIdle == codec = [pc |-> "none"]

AuxIdle ==
    /\ HrIdle
    /\ ArrivalsIdle
    /\ XcIdle
    /\ PgIdle
    /\ SfIdle
    /\ ClIdle
    /\ CodecIdle

-----------------------------------------------------------------------------
(* Bounds of the model *)

\* most values a repeatable connection header (Session, Prepared-Statement) holds
MaxEntries == 2
\* most consecutive 502/503/504 answers to one request
MaxK == 12
\* most consecutive 502/503/504 answers while the header ingestion is explored
MaxConnK == 1

-----------------------------------------------------------------------------
(* Helpers on sequences *)

Min(a, b) == IF a <= b THEN a ELSE b

\* strings.HasPrefix
HasPrefix(s, p) == Len(p) <= Len(s) /\ SubSeq(s, 1, Len(p)) = p

RECURSIVE SelectNot(_, _)
\* the values of vs, in order, that do not start with p
SelectNot(vs, p) ==
    IF vs = <<>> THEN <<>>
    ELSE IF HasPrefix(Head(vs), p) THEN SelectNot(Tail(vs), p)
         ELSE <<Head(vs)>> \o SelectNot(Tail(vs), p)

Range(s) == {s[i] : i \in 1..Len(s)}


-----------------------------------------------------------------------------
(* Conn: header names and the values the modelled server and DSN use *)

hCatalog  == "X-Trino-Catalog"
hSchema   == "X-Trino-Schema"
hSession  == "X-Trino-Session"
hPrepared == "X-Trino-Prepared-Statement"
hUser     == "X-Trino-User"
ReqNames  == {hCatalog, hSchema, hSession, hPrepared, hUser}

rSetCatalog  == "X-Trino-Set-Catalog"
rSetSchema   == "X-Trino-Set-Schema"
rSetPath     == "X-Trino-Set-Path"
rSetSession  == "X-Trino-Set-Session"
rClearSession == "X-Trino-Clear-Session"
rSetRole     == "X-Trino-Set-Role"
rAddedPrepare == "X-Trino-Added-Prepare"
rDeallocatedPrepare == "X-Trino-Deallocated-Prepare"
RespNames == {rSetCatalog, rSetSchema, rSetPath, rSetSession, rClearSession,
              rSetRole, rAddedPrepare, rDeallocatedPrepare}

\* the empty string
NoStr == <<>>
Eq == <<"=">>
\* two keys, one a proper prefix of the other
KeyA  == <<"a">>
KeyAB == <<"a", "b">>
Keys  == {KeyA, KeyAB}
\* entries "key=value"
Entry(k, v) == k \o Eq \o v
Entries == {Entry(k, <<"x">>) : k \in Keys}

\* the key of an entry: what stands before its first "="
RECURSIVE KeyOf(_)
KeyOf(e) ==
    IF e = <<>> \/ Head(e) = "=" THEN <<>>
    ELSE <<Head(e)>> \o KeyOf(Tail(e))

responseToRequestHeaderMap ==
    [h \in {rSetSchema, rSetCatalog} |->
        IF h = rSetSchema THEN hSchema ELSE hCatalog]

unsupportedResponseHeaders == {rSetPath, rSetRole}

\* the lists of values a response header may hold (Go: map[string][]string)
RespValues(n) ==
    CASE n = rSetCatalog  -> {<<>>, <<<<"c">>>>, <<<<"d">>>>}
      [] n = rSetSchema   -> {<<>>, <<<<"s">>>>}
      [] n = rSetPath     -> {<<>>, <<<<"p">>>>}
      [] n = rSetRole     -> {<<>>, <<<<"r">>>>}
      [] n = rSetSession  ->
            {<<>>} \cup {<<e>> : e \in Entries}
                   \cup {<<Entry(KeyAB, <<"x">>), Entry(KeyA, <<"x">>)>>}
      [] n = rAddedPrepare -> {<<>>} \cup {<<e>> : e \in Entries}
      [] n = rClearSession -> {<<>>} \cup {<<k>> : k \in Keys}
      [] n = rDeallocatedPrepare -> {<<>>} \cup {<<k>> : k \in Keys}

EmptyRespHdr == [n \in RespNames |-> <<>>]

\* the header maps of the 200 responses of the modelled server
AllRespHdrs ==
    {[n \in RespNames |->
        CASE n = rSetCatalog  -> c
          [] n = rSetSchema   -> sc
          [] n = rSetPath     -> pa
          [] n = rSetRole     -> ro
          [] n = rSetSession  -> ss
          [] n = rAddedPrepare -> ap
          [] n = rClearSession -> cs
          [] n = rDeallocatedPrepare -> dp] :
        c \in RespValues(rSetCatalog), sc \in RespValues(rSetSchema),
        pa \in RespValues(rSetPath), ro \in RespValues(rSetRole),
        ss \in RespValues(rSetSession), ap \in RespValues(rAddedPrepare),
        cs \in RespValues(rClearSession), dp \in RespValues(rDeallocatedPrepare)}

\* the groups of response headers a modelled server uses during one run
ServerProfiles ==
    {{rSetCatalog, rSetSchema, rSetPath, rSetRole},
     {rSetSession, rClearSession, rAddedPrepare, rDeallocatedPrepare},
     {rSetRole}}

\* the header maps of the 200 responses of a server of each profile
ProfileRespHdrs ==
    [p \in ServerProfiles |->
        {h \in AllRespHdrs : \A n \in RespNames \ p : h[n] = <<>>}]

NoResp == [status |-> 0, hdr |-> EmptyRespHdr]
NoReq  == [n \in ReqNames |-> <<>>]
NoHs   == [n \in {} |-> <<>>]

\* the per-call headers hs of the modelled callers
CallHeaders ==
    {NoHs, [n \in {hUser} |-> <<<<"v">>>>], [n \in {hCatalog} |-> <<<<"o">>>>]}

StatusOK == 200
TransientStatuses == {502, 503, 504}
OtherStatuses == {204, 500}

-----------------------------------------------------------------------------
(* http.Header *)

HeaderGet(h, n)    == IF h[n] = <<>> THEN NoStr ELSE h[n][1]
HeaderValues(h, n) == h[n]
HeaderSet(h, n, v) == [h EXCEPT ![n] = <<v>>]
HeaderAdd(h, n, v) == [h EXCEPT ![n] = @ \o <<v>>]
HeaderDel(h, n)    == [h EXCEPT ![n] = <<>>]

\* mutant: the values are compared with the prefix v, without the "="
RemovePrefixed_NoEq(h, n, v) ==
    [HeaderDel(h, n) EXCEPT ![n] = SelectNot(HeaderValues(h, n), v)]

\* Del, then Add of every value that does not start with v + "="
RemovePrefixed(h, n, v) ==
    [HeaderDel(h, n) EXCEPT ![n] = SelectNot(HeaderValues(h, n), v \o Eq)]

-----------------------------------------------------------------------------
(* Conn.newRequest *)

newRequest(hdrs, hs) ==
    [n \in ReqNames |-> IF n \in DOMAIN hs THEN hs[n] ELSE hdrs[n]]

-----------------------------------------------------------------------------
(* Conn.roundTrip: the ingestion of a 200 response *)

\* mutant: Add where the code calls Set
IngestSet_Add(h, resp) ==
    LET one(hh, src) ==
            IF HeaderGet(resp.hdr, src) # NoStr
            THEN HeaderAdd(hh, responseToRequestHeaderMap[src],
                           HeaderGet(resp.hdr, src))
            ELSE hh
    IN  one(one(h, rSetSchema), rSetCatalog)

IngestSet(h, resp) ==
    LET one(hh, src) ==
            IF HeaderGet(resp.hdr, src) # NoStr
            THEN HeaderSet(hh, responseToRequestHeaderMap[src],
                           HeaderGet(resp.hdr, src))
            ELSE hh
    IN  one(one(h, rSetSchema), rSetCatalog)

IngestAddedPrepare(h, resp) ==
    IF HeaderGet(resp.hdr, rAddedPrepare) # NoStr
    THEN HeaderAdd(h, hPrepared, HeaderGet(resp.hdr, rAddedPrepare))
    ELSE h

\* mutant: the values are compared with n, not with the prefix n + "="
IngestDeallocatedPrepare_Exact(h, resp) ==
    IF HeaderGet(resp.hdr, rDeallocatedPrepare) # NoStr
    THEN [h EXCEPT ![hPrepared] =
            SelectSeq(@, LAMBDA v2 : v2 # HeaderGet(resp.hdr, rDeallocatedPrepare))]
    ELSE h

IngestDeallocatedPrepare(h, resp) ==
    IF HeaderGet(resp.hdr, rDeallocatedPrepare) # NoStr
    THEN RemovePrefixed(h, hPrepared, HeaderGet(resp.hdr, rDeallocatedPrepare))
    ELSE h

IngestSetSession(h, resp) ==
    IF HeaderGet(resp.hdr, rSetSession) # NoStr
    THEN HeaderAdd(h, hSession, HeaderGet(resp.hdr, rSetSession))
    ELSE h

\* mutant: the Del before the re-Add is forgotten
IngestClearSession_NoDel(h, resp) ==
    IF HeaderGet(resp.hdr, rClearSession) # NoStr
    THEN [h EXCEPT ![hSession] =
            @ \o SelectNot(@, HeaderGet(resp.hdr, rClearSession) \o Eq)]
    ELSE h

IngestClearSession(h, resp) ==
    IF HeaderGet(resp.hdr, rClearSession) # NoStr
    THEN RemovePrefixed(h, hSession, HeaderGet(resp.hdr, rClearSession))
    ELSE h

IngestHeaders(h, resp) ==
    IngestClearSession(
      IngestSetSession(
        IngestDeallocatedPrepare(
          IngestAddedPrepare(
            IngestSet(h, resp), resp), resp), resp), resp)

\* mutant: Set-Role is missing from unsupportedResponseHeaders
HasUnsupportedHeader_PathOnly(resp) ==
    HeaderGet(resp.hdr, rSetPath) # NoStr

HasUnsupportedHeader(resp) ==
    \E n \in unsupportedResponseHeaders : HeaderGet(resp.hdr, n) # NoStr

\* mutant: 502 and 504 fall to the default case
IsTransient_Only503(status) == status = 503

IsTransient(status) == status \in {502, 503, 504}

-----------------------------------------------------------------------------
(* Conn.roundTrip: the delay between two attempts *)

\* A duration is an exact real a + b * math.Phi, in milliseconds, held as
\* [a, b]: the products by math.Phi are then exact.  (The truncation to whole
\* nanoseconds of the conversion to time.Duration, below 1e-6 ms, is not kept.)
Dur(a, b) == [a |-> a, b |-> b]

\* 0 <= a + b * Phi, decided in integers: 0 <= (2a + b) + b * sqrt(5)
NonNeg(a, b) ==
    LET u == 2 * a + b
    IN  \/ u >= 0 /\ b >= 0
        \/ u >= 0 /\ b < 0 /\ u * u >= 5 * b * b
        \/ u < 0 /\ b > 0 /\ 5 * b * b >= u * u

DurLe(x, y) == NonNeg(y.a - x.a, y.b - x.b)

\* math.Min
DurMin(x, y) == IF DurLe(x, y) THEN x ELSE y

\* float64(d) * math.Phi, with Phi * Phi = Phi + 1
MulPhi(d) == Dur(d.b, d.a + d.b)

InitialDelayMs == 100
maxDelayBetweenRequestsMs == 15000

InitialDelay == Dur(InitialDelayMs, 0)
maxDelayBetweenRequests == Dur(maxDelayBetweenRequestsMs, 0)

\* mutant: the delay is not capped
NextDelay_NoCap(d) == MulPhi(d)

NextDelay(d) == DurMin(MulPhi(d), maxDelayBetweenRequests)

-----------------------------------------------------------------------------
(* Conn: the connection after newConn, and one caller at a time going      *)
(* through newRequest and roundTrip                                        *)

NoResult == [resp |-> NoResp, err |-> "none"]
NoSrv    == [left |-> 0, final |-> "none"]
NoSet    == [catalog |-> NoStr, schema |-> NoStr]

\* the header maps newConn builds from the modelled DSNs
DsnHeaders ==
    {[n \in ReqNames |->
        CASE n = hCatalog -> cat
          [] n = hSession -> ses
          [] n = hUser    -> <<<<"u">>>>
          [] OTHER        -> <<>>] :
        cat \in {<<>>, <<<<"c">>>>},
        ses \in {<<>>, <<Entry(KeyA, <<"x">>)>>}}

\* no statement is executing on the connection
RowsIdle ==
    /\ qctx = "live"
    /\ pages = <<>>
    /\ fpc = "none"
    /\ fUri = 0
    /\ ppc = "none"
    /\ pPage = 0
    /\ qpc = "none"
    /\ qrErr = "nil"
    /\ qrColumns = FALSE
    /\ qrData = 0
    /\ rowindex = 0
    /\ qrNextURI = 0
    /\ delivered = <<>>
    /\ eofProduced = FALSE
    /\ qrPage = 0
    /\ ret = [op |-> "none", err |-> "nil"]
    /\ closes = <<>>
    /\ deletes = 0

ConnState(hdrs, e) ==
    /\ httpHeaders \in hdrs
    /\ cpc = "idle"
    /\ req = NoReq
    /\ reqHs = NoHs
    /\ ctxDone = FALSE
    /\ srv = NoSrv
    /\ delay = Dur(0, 0)
    /\ waits = <<>>
    /\ lastResp = NoResp
    /\ result = NoResult
    /\ hdrsBefore = httpHeaders
    /\ lastSet = NoSet
    /\ env = e

\* no spooled result is being read
PipeIdle ==
    /\ segs = <<>>
    /\ cfg = [bound |-> 0, workers |-> 0]
    /\ rpc = "none"
    /\ qi = 0
    /\ toProcess = <<>>
    /\ dpc = "none"
    /\ dseg = 0
    /\ tokens = 0
    /\ admitted = {}
    /\ released = <<>>
    /\ metaCh = <<>>
    /\ toDecode = <<>>
    /\ dl = [idle |-> 0, send |-> {}, err |-> {}]
    /\ dec = [idle |-> 0, send |-> {}, err |-> {}]
    /\ dlCancelled = FALSE
    /\ decCancelled = FALSE
    /\ spc = "none"
    /\ buffer = <<>>
    /\ consumed = 0
    /\ nextExpectedOffset = 0
    /\ emitted = <<>>

ConnInitWith(hdrs, e) ==
    /\ RowsIdle
    /\ PipeIdle
    /\ AuxIdle
    /\ ConnState(hdrs, e)

\* the caller builds a request: Conn.newRequest
NewRequest ==
    /\ UNCHANGED nonConnVars
    /\ cpc = "idle"
    /\ \E hs \in CallHeaders :
          /\ req' = newRequest(httpHeaders, hs)
          /\ reqHs' = hs
    /\ cpc' = "built"
    /\ hdrsBefore' = httpHeaders
    /\ result' = NoResult
    /\ lastResp' = NoResp
    /\ ctxDone' = FALSE
    /\ UNCHANGED <<httpHeaders, srv, delay, waits, lastSet, env>>

\* Conn.roundTrip is entered: delay := 100 ms, timer := NewTimer(0)
RoundTripStart ==
    /\ UNCHANGED nonConnVars
    /\ cpc = "built"
    /\ cpc' = "select"
    /\ delay' = InitialDelay
    /\ waits' = <<>>
    /\ \E k \in 0..env.maxK, f \in {"ok", "other", "neterr"} :
          srv' = [left |-> k, final |-> f]
    /\ UNCHANGED <<httpHeaders, req, reqHs, ctxDone, lastResp, result,
                   hdrsBefore, lastSet, env>>

\* the caller's context is cancelled
CancelCtx ==
    /\ UNCHANGED nonConnVars
    /\ cpc \in {"built", "select"}
    /\ ~ctxDone
    /\ ctxDone' = TRUE
    /\ UNCHANGED <<httpHeaders, cpc, req, reqHs, srv, delay, waits, lastResp,
                   result, hdrsBefore, lastSet, env>>

\* select: case <-ctx.Done()
RoundTripCtxDone ==
    /\ UNCHANGED nonConnVars
    /\ cpc = "select"
    /\ ctxDone
    /\ result' = [resp |-> NoResp, err |-> "ctx.Err"]
    /\ cpc' = "returned"
    /\ UNCHANGED <<httpHeaders, req, reqHs, ctxDone, srv, delay, waits,
                   lastResp, hdrsBefore, lastSet, env>>

Returns(r, e) ==
    /\ result' = [resp |-> r, err |-> e]
    /\ cpc' = "returned"

\* the value of lastSet after resp is ingested
SetAfter(resp) ==
    [catalog |-> IF HeaderGet(resp.hdr, rSetCatalog) # NoStr
                 THEN HeaderGet(resp.hdr, rSetCatalog) ELSE lastSet.catalog,
     schema  |-> IF HeaderGet(resp.hdr, rSetSchema) # NoStr
                 THEN HeaderGet(resp.hdr, rSetSchema) ELSE lastSet.schema]

\* select: case <-timer.C: one c.httpClient.Do(req) and the switch on its outcome
RoundTripDo ==
    /\ UNCHANGED nonConnVars
    /\ cpc = "select"
    /\ \/ \* Do fails: the context is cancelled, or the transport fails
          /\ ctxDone \/ (srv.left = 0 /\ srv.final = "neterr")
          /\ Returns(NoResp, "ErrQueryFailed")
          /\ lastResp' = NoResp
          /\ UNCHANGED <<httpHeaders, srv, delay, waits, lastSet>>
       \/ \* any answer of the server
          /\ ~ctxDone
          /\ \E resp \in
                IF srv.left > 0
                THEN {[status |-> st, hdr |-> EmptyRespHdr] : st \in TransientStatuses}
                ELSE IF srv.final = "other"
                THEN {[status |-> st, hdr |-> EmptyRespHdr] : st \in OtherStatuses}
                ELSE IF srv.final = "ok"
                THEN {[status |-> StatusOK, hdr |-> h] :
                        h \in ProfileRespHdrs[env.names]}
                ELSE {} :
                /\ lastResp' = resp
                /\ IF resp.status = StatusOK
                   THEN /\ Len(IngestHeaders(httpHeaders, resp)[hSession]) <= MaxEntries
                        /\ Len(IngestHeaders(httpHeaders, resp)[hPrepared]) <= MaxEntries
                        /\ httpHeaders' = IngestHeaders(httpHeaders, resp)
                        /\ lastSet' = SetAfter(resp)
                        /\ IF HasUnsupportedHeader(resp)
                           THEN Returns(NoResp, "ErrUnsupportedHeader")
                           ELSE Returns(resp, "nil")
                        /\ UNCHANGED <<srv, delay, waits>>
                   ELSE IF IsTransient(resp.status)
                   THEN /\ waits' = Append(waits, delay)
                        /\ delay' = NextDelay(delay)
                        /\ srv' = [srv EXCEPT !.left = @ - 1]
                        /\ UNCHANGED <<httpHeaders, cpc, result, lastSet>>
                   ELSE /\ Returns(NoResp, "ErrQueryFailed")
                        /\ UNCHANGED <<httpHeaders, srv, delay, waits, lastSet>>
    /\ UNCHANGED <<req, reqHs, ctxDone, hdrsBefore, env>>

\* the caller has the result of roundTrip and lets the request go
CallDone ==
    /\ UNCHANGED nonConnVars
    /\ cpc = "returned"
    /\ cpc' = "idle"
    /\ req' = NoReq
    /\ reqHs' = NoHs
    /\ ctxDone' = FALSE
    /\ srv' = NoSrv
    /\ delay' = Dur(0, 0)
    /\ waits' = <<>>
    /\ lastResp' = NoResp
    /\ result' = NoResult
    /\ hdrsBefore' = httpHeaders
    /\ UNCHANGED <<httpHeaders, lastSet, env>>

ConnNext ==
    \/ NewRequest
    \/ RoundTripStart
    \/ CancelCtx
    \/ RoundTripCtxDone
    \/ RoundTripDo
    \/ CallDone

\* the connection under every 200 response of the modelled server
ConnInit ==
    \E p \in ServerProfiles \ {{rSetRole}} :
        ConnInitWith(DsnHeaders, [maxK |-> MaxConnK, names |-> p])
SpecConn == ConnInit /\ [][ConnNext]_vars

\* the retry loop of roundTrip under long runs of 502/503/504
RetryInit ==
    ConnInitWith({[n \in ReqNames |-> IF n = hUser THEN <<<<"u">>>> ELSE <<>>]},
                 [maxK |-> MaxK, names |-> {rSetRole}])
SpecRetry == RetryInit /\ [][ConnNext]_vars
\* the timer fires and the request is performed
SpecRetryFair == SpecRetry /\ WF_vars(RoundTripDo)


-----------------------------------------------------------------------------
(* Claims about Conn.roundTrip and Conn.newRequest *)

\* a 200 response has just been ingested by roundTrip
Ingested200 == cpc = "returned" /\ lastResp.status = StatusOK

KeysOf(vs) == {KeyOf(vs[i]) : i \in 1..Len(vs)}

\* C4: once a 200 response carrying Clear-Session k is ingested (whether the
\* Set-Session k=v came in an earlier response, in the DSN, or in this same
\* response), the connection's Session header holds no entry of key k.
C4_ClearSessionRemovesKey ==
    (Ingested200 /\ HeaderGet(lastResp.hdr, rClearSession) # NoStr)
        => HeaderGet(lastResp.hdr, rClearSession)
               \notin KeysOf(httpHeaders[hSession])

\* C4 witness: a key set twice (earlier, and again by this response) is cleared
C4_Witness ==
    /\ Ingested200
    /\ HeaderGet(lastResp.hdr, rClearSession) = KeyAB
    /\ HeaderGet(lastResp.hdr, rSetSession) = Entry(KeyAB, <<"x">>)
    /\ KeyAB \in KeysOf(hdrsBefore[hSession])
    /\ KeyA \in KeysOf(httpHeaders[hSession])

\* C5: once a 200 response carrying Deallocated-Prepare n is ingested, the
\* connection's Prepared-Statement header holds no entry starting with n=,
\* however many times n was added before or by this same response.
C5_DeallocateRemovesName ==
    (Ingested200 /\ HeaderGet(lastResp.hdr, rDeallocatedPrepare) # NoStr)
        => \A i \in 1..Len(httpHeaders[hPrepared]) :
              ~HasPrefix(httpHeaders[hPrepared][i],
                         HeaderGet(lastResp.hdr, rDeallocatedPrepare) \o Eq)

\* C5 witness: a name added twice before is deallocated
C5_Witness ==
    /\ Ingested200
    /\ HeaderGet(lastResp.hdr, rDeallocatedPrepare) = KeyA
    /\ hdrsBefore[hPrepared] = <<Entry(KeyA, <<"x">>), Entry(KeyA, <<"x">>)>>
    /\ httpHeaders[hPrepared] = <<>>

\* C9: a request built after a Set-Catalog (Set-Schema) response was ingested,
\* without a per-call override of that header, carries exactly one
\* X-Trino-Catalog (X-Trino-Schema) value, the last one the server set.
C9_SetCatalogSchemaCarried ==
    cpc = "built" =>
        /\ (lastSet.catalog # NoStr /\ hCatalog \notin DOMAIN reqHs)
              => req[hCatalog] = <<lastSet.catalog>>
        /\ (lastSet.schema # NoStr /\ hSchema \notin DOMAIN reqHs)
              => req[hSchema] = <<lastSet.schema>>

\* C9 witness: the DSN's catalog "c" was replaced by "d", and a schema was set
C9_Witness ==
    /\ cpc = "built"
    /\ reqHs = NoHs
    /\ lastSet.catalog = <<"d">>
    /\ lastSet.schema = <<"s">>
    /\ req[hCatalog] = <<<<"d">>>>

\* C10: a 200 response with a non-empty Set-Path or Set-Role makes roundTrip
\* return ErrUnsupportedHeader and no response.
C10_UnsupportedHeaderFails ==
    (Ingested200 /\ (\/ HeaderGet(lastResp.hdr, rSetPath) # NoStr
                     \/ HeaderGet(lastResp.hdr, rSetRole) # NoStr))
        => result = [resp |-> NoResp, err |-> "ErrUnsupportedHeader"]

\* C10 witness: a 200 response with Set-Role was received
C10_Witness ==
    /\ Ingested200
    /\ HeaderGet(lastResp.hdr, rSetRole) # NoStr
    /\ HeaderGet(lastResp.hdr, rSetPath) = NoStr
    /\ result.err = "ErrUnsupportedHeader"


-----------------------------------------------------------------------------
(* Claims about the retry loop of Conn.roundTrip *)

RECURSIVE Fib(_)
Fib(n) == IF n = 0 THEN 0 ELSE IF n = 1 THEN 1 ELSE Fib(n - 1) + Fib(n - 2)

\* 100 ms * Phi^m, from Phi^m = Fib(m-1) + Fib(m) * Phi
HundredPhiPow(m) ==
    IF m = 0 THEN Dur(100, 0) ELSE Dur(100 * Fib(m - 1), 100 * Fib(m))

\* C6 as stated: whenever roundTrip returns after a 200 answer, with the
\* context not cancelled, it returns that response and no error.
C6_AsStated ==
    (Ingested200 /\ ~ctxDone) => result = [resp |-> lastResp, err |-> "nil"]

\* C6 (amended): under any number of 502/503/504 answers followed by a 200,
\* roundTrip eventually returns; and when it returns with the context not
\* cancelled, it has not given up on a transient status: the 200 was received,
\* and it returns that response, or ErrUnsupportedHeader when the 200 carries
\* Set-Path or Set-Role.
C6_RetriesUntil200 ==
    /\ [](cpc = "select" => <>(cpc = "returned"))
    /\ []((cpc = "returned" /\ srv.final = "ok" /\ ~ctxDone) =>
            /\ lastResp.status = StatusOK
            /\ IF HasUnsupportedHeader(lastResp)
               THEN result = [resp |-> NoResp, err |-> "ErrUnsupportedHeader"]
               ELSE result = [resp |-> lastResp, err |-> "nil"])

\* C6 witness: MaxK transient answers, then the 200 is returned
C6_Witness ==
    /\ cpc = "returned"
    /\ Len(waits) = MaxK
    /\ result.resp.status = StatusOK
    /\ result.err = "nil"

\* C7: the wait before the n-th retry is min(100 ms * Phi^(n-1), 15 s); the
\* waits never decrease and never exceed 15 s.
C7_BackoffSchedule ==
    \A n \in 1..Len(waits) :
        /\ waits[n] = IF DurLe(Dur(15000, 0), HundredPhiPow(n - 1))
                      THEN Dur(15000, 0) ELSE HundredPhiPow(n - 1)
        /\ DurLe(waits[n], Dur(15000, 0))
        /\ n > 1 => DurLe(waits[n - 1], waits[n])

\* C7 witness: the twelfth wait is the first one capped at 15 s
C7_Witness ==
    /\ Len(waits) >= 12
    /\ waits[12] = Dur(15000, 0)
    /\ waits[11] # Dur(15000, 0)
    /\ waits[1] = Dur(100, 0)

-----------------------------------------------------------------------------
(* driverRows over the paging loop started by driverStmt.exec, direct       *)
(* protocol.  The channels nextURIs, httpResponses, queryResponses and      *)
(* errors are unbuffered: a send and its receive are one step.  A URI is    *)
(* the index of the page it addresses, 0 is the empty URI.                  *)

MaxPages == 2
MaxRowsPerPage == 2
MaxCloses == 2

\* a page: the number of rows of its data array, and whether it has columns
PageSet ==
    {[rows |-> r, cols |-> c] : r \in 0..MaxRowsPerPage, c \in BOOLEAN} \
    {[rows |-> r, cols |-> FALSE] : r \in 1..MaxRowsPerPage}
PageSeqs == UNION {[1..n -> PageSet] : n \in 0..MaxPages}

NextURIOf_Skip(i) == IF i + 1 < Len(pages) THEN i + 2 ELSE 0

\* the nextUri of page i (of the POST response when i = 0)
NextURIOf(i) == IF i < Len(pages) THEN i + 1 ELSE 0

\* the connection's own state while a statement runs
ConnIdle ==
    ConnState({[n \in ReqNames |-> IF n = hUser THEN <<<<"u">>>> ELSE <<>>]},
              [maxK |-> 0, names |-> {rSetRole}])

\* QueryContext has posted the statement and exec has started its goroutines
RowsInit ==
    /\ ConnIdle
    /\ PipeIdle
    /\ AuxIdle
    /\ qctx = "live"
    /\ pages \in PageSeqs
    /\ fpc = "recv"
    /\ fUri = 0
    /\ ppc = "recv"
    /\ pPage = 0
    /\ qpc = "seed"
    /\ qrErr = "nil"
    /\ qrColumns = FALSE
    /\ qrData = 0
    /\ rowindex = 0
    /\ qrNextURI = NextURIOf(0)
    /\ delivered = <<>>
    /\ eofProduced = FALSE
    /\ qrPage = 0
    /\ ret = [op |-> "none", err |-> "nil"]
    /\ closes = <<>>
    /\ deletes = 0

FetcherTakes_Ignore(u) ==
    /\ fUri' = u
    /\ fpc' = IF u = 0 THEN "recv" ELSE "get"

\* the fetcher has received nextURI u: it returns on the empty URI
FetcherTakes(u) ==
    /\ fUri' = u
    /\ fpc' = IF u = 0 THEN "exit" ELSE "get"

\* exec: st.nextURIs <- sr.NextURI, then QueryContext enters rows.fetch()
ExecSeed ==
    /\ qpc = "seed"
    /\ fpc = "recv"
    /\ FetcherTakes(NextURIOf(0))
    /\ qpc' = "fetch_query"
    /\ UNCHANGED <<pages, ppc, pPage, qrErr, qrColumns, qrData, rowindex,
                   qrNextURI, delivered, eofProduced, qrPage, ret, closes,
                   deletes>>
    /\ UNCHANGED <<nonRowsVars, qctx>>

\* fetcher: newRequest and roundTrip of the GET; on error it goes to
\* st.errors <- err, or to st.errors <- context.Canceled
FetcherGet ==
    /\ fpc = "get"
    /\ IF qctx # "live"
       THEN \* the request fails and ctx.Err() == context.Canceled
            fpc' = "cancelled"
       ELSE fpc' \in {"send", "err"}
    /\ UNCHANGED <<pages, fUri, ppc, pPage, qpc, qrErr, qrColumns, qrData,
                   rowindex, qrNextURI, delivered, eofProduced, qrPage, ret,
                   closes, deletes>>
    /\ UNCHANGED <<nonRowsVars, qctx>>

\* st.httpResponses <- resp, received by the parser, which decodes the body
\* and applies handleResponseError
FetcherSend ==
    /\ fpc = "send"
    /\ ppc = "recv"
    /\ fpc' = "recv"
    /\ pPage' = fUri
    /\ ppc' \in {"sendURI", "err"}
    /\ UNCHANGED <<pages, fUri, qpc, qrErr, qrColumns, qrData, rowindex,
                   qrNextURI, delivered, eofProduced, qrPage, ret, closes,
                   deletes>>
    /\ UNCHANGED <<nonRowsVars, qctx>>

\* the parser reads the closed httpResponses and returns: close(queryResponses)
ParserClosed ==
    /\ ppc = "recv"
    /\ fpc = "exit"
    /\ ppc' = "exit"
    /\ UNCHANGED <<pages, fpc, fUri, pPage, qpc, qrErr, qrColumns, qrData,
                   rowindex, qrNextURI, delivered, eofProduced, qrPage, ret,
                   closes, deletes>>
    /\ UNCHANGED <<nonRowsVars, qctx>>

\* parser: st.nextURIs <- qresp.NextURI, received by the fetcher
ParserSendURI ==
    /\ ppc = "sendURI"
    /\ fpc = "recv"
    /\ FetcherTakes(NextURIOf(pPage))
    /\ ppc' = "sendResp"
    /\ UNCHANGED <<pages, pPage, qpc, qrErr, qrColumns, qrData, rowindex,
                   qrNextURI, delivered, eofProduced, qrPage, ret, closes,
                   deletes>>
    /\ UNCHANGED <<nonRowsVars, qctx>>

\* what the coordinator answers to the DELETE, as roundTrip reports it
DeleteOutcomes == {"204", "200", "error"}

InFetch == qpc \in {"fetch_query", "fetch_next", "fetch_columns"}

\* driverRows.next(dest): ErrNoRows without column types, else row rowindex
\* of the batch is handed out; cols, page, idx: the iterator after fetch
RowsNextRow(cols, page, idx) ==
    IF ~cols
    THEN /\ qrErr' = "ErrNoRows"
         /\ ret' = [op |-> "Next", err |-> "ErrNoRows"]
         /\ rowindex' = idx
         /\ UNCHANGED delivered
    ELSE /\ delivered' = Append(delivered, <<page, idx + 1>>)
         /\ rowindex' = idx + 1
         /\ ret' = [op |-> "Next", err |-> "nil"]
         /\ UNCHANGED qrErr

\* qr.fetch() returns e to the operation that called it; stored: fetch itself
\* assigned qr.err (the errors branch); cols, page: the iterator after fetch
FetchReturns(e, stored, cols, page) ==
    /\ eofProduced' = (eofProduced \/ e = "EOF")
    /\ qpc' = IF qpc = "fetch_query" /\ e \notin {"nil", "EOF"}
              THEN "failed" ELSE "idle"
    /\ CASE qpc = "fetch_query" ->
              \* QueryContext: err != nil && err != io.EOF -> return nil, err
              /\ qrErr' = IF stored THEN e ELSE qrErr
              /\ ret' = [op |-> "QueryContext",
                         err |-> IF e = "EOF" THEN "nil" ELSE e]
              /\ rowindex' = 0
              /\ UNCHANGED delivered
         [] qpc = "fetch_next" ->
              \* Next: if err := qr.fetch(); err != nil { qr.err = err }
              IF e # "nil"
              THEN /\ qrErr' = e
                   /\ ret' = [op |-> "Next", err |-> e]
                   /\ rowindex' = 0
                   /\ UNCHANGED delivered
              ELSE RowsNextRow(cols, page, 0)
         [] qpc = "fetch_columns" ->
              \* Columns: err != nil && err != io.EOF -> qr.err = err
              /\ qrErr' = IF stored \/ e \notin {"nil", "EOF"} THEN e ELSE qrErr
              /\ ret' = [op |-> "Columns", err |-> "nil"]
              /\ rowindex' = 0
              /\ UNCHANGED delivered

\* fetch: case qresp = <-qr.stmt.queryResponses, sent by the parser
FetchResp ==
    /\ InFetch
    /\ ppc = "sendResp"
    /\ ppc' = "recv"
    /\ LET pg == pages[pPage]
           cols == qrColumns \/ pg.cols
       IN /\ qrColumns' = cols
          /\ qrData' = pg.rows
          /\ qrPage' = pPage
          /\ IF pg.rows # 0
             THEN FetchReturns("nil", FALSE, cols, pPage)
             ELSE /\ rowindex' = 0
                  /\ UNCHANGED <<qpc, qrErr, delivered, eofProduced, ret>>
    /\ UNCHANGED <<pages, fpc, fUri, pPage, qrNextURI, closes, deletes>>
    /\ UNCHANGED <<nonRowsVars, qctx>>

\* fetch: queryResponses is closed, the zero qresp has ID "": return io.EOF
FetchEOF ==
    /\ InFetch
    /\ ppc = "exit"
    /\ FetchReturns("EOF", FALSE, qrColumns, qrPage)
    /\ UNCHANGED <<pages, fpc, fUri, ppc, pPage, qrColumns, qrData, qrNextURI,
                   qrPage, closes, deletes>>
    /\ UNCHANGED <<nonRowsVars, qctx>>

\* fetch: case err = <-qr.stmt.errors, sent by the fetcher or the parser,
\* which then returns; on context.Canceled fetch calls qr.Close(), which
\* sends the DELETE (qr.err is nil whenever fetch is called), and then
\* assigns qr.err = err
FetchErr ==
    /\ InFetch
    /\ \/ /\ fpc = "err"
          /\ fpc' = "exit"
          /\ UNCHANGED <<ppc, deletes, qrNextURI>>
          /\ FetchReturns("ErrQueryFailed", TRUE, qrColumns, qrPage)
       \/ /\ ppc = "err"
          /\ ppc' = "exit"
          /\ UNCHANGED <<fpc, deletes, qrNextURI>>
          /\ FetchReturns("ErrTrino", TRUE, qrColumns, qrPage)
       \/ /\ fpc = "cancelled"
          /\ fpc' = "exit"
          /\ UNCHANGED ppc
          /\ deletes' = deletes + 1
          /\ \E out \in DeleteOutcomes :
                qrNextURI' = IF out = "204" THEN 0 ELSE qrNextURI
          /\ FetchReturns("Canceled", TRUE, qrColumns, qrPage)
    /\ UNCHANGED <<pages, fUri, pPage, qrColumns, qrData, qrPage, closes>>
    /\ UNCHANGED <<nonRowsVars, qctx>>

\* the caller cancels the context it gave to QueryContext
CancelQuery ==
    /\ qpc \notin {"none", "failed"}
    /\ qctx = "live"
    /\ qctx' = IF qpc \in {"idle", "fetch_next", "fetch_columns"} /\ qrErr = "nil"
               THEN "cancelled_reading" ELSE "cancelled"
    /\ UNCHANGED rowsVars
    /\ UNCHANGED nonRowsVars

\* driverRows.Next, direct protocol
RowsNext ==
    /\ qpc = "idle"
    /\ IF qrErr # "nil"
       THEN /\ ret' = [op |-> "Next", err |-> qrErr]
            /\ UNCHANGED <<qpc, qrErr, rowindex, delivered, eofProduced>>
       ELSE IF ~qrColumns \/ rowindex >= qrData
       THEN IF qrNextURI = 0
            THEN /\ qrErr' = "EOF"
                 /\ eofProduced' = TRUE
                 /\ ret' = [op |-> "Next", err |-> "EOF"]
                 /\ UNCHANGED <<qpc, rowindex, delivered>>
            ELSE /\ qpc' = "fetch_next"
                 /\ UNCHANGED <<qrErr, rowindex, delivered, eofProduced, ret>>
       ELSE /\ RowsNextRow(qrColumns, qrPage, rowindex)
            /\ UNCHANGED <<qpc, eofProduced>>
    /\ UNCHANGED <<pages, fpc, fUri, ppc, pPage, qrColumns, qrData, qrNextURI,
                   qrPage, closes, deletes>>
    /\ UNCHANGED <<nonRowsVars, qctx>>

\* driverRows.Columns
RowsColumns ==
    /\ qpc = "idle"
    /\ IF qrErr = "nil" /\ ~qrColumns
       THEN /\ qpc' = "fetch_columns"
            /\ UNCHANGED ret
       ELSE /\ ret' = [op |-> "Columns", err |-> "nil"]
            /\ UNCHANGED qpc
    /\ UNCHANGED <<pages, fpc, fUri, ppc, pPage, qrErr, qrColumns, qrData,
                   rowindex, qrNextURI, delivered, eofProduced, qrPage, closes,
                   deletes>>
    /\ UNCHANGED <<nonRowsVars, qctx>>

\* driverRows.Close
RowsClose ==
    /\ qpc = "idle"
    /\ Len(closes) < MaxCloses
    /\ IF qrErr \in {"ErrNoRows", "EOF"}
       THEN /\ closes' = Append(closes, [afterEOF |-> eofProduced,
                                         delete |-> FALSE, err |-> "nil"])
            /\ ret' = [op |-> "Close", err |-> "nil"]
            /\ UNCHANGED <<qrErr, qrNextURI, deletes>>
       ELSE /\ qrErr' = "EOF"
            /\ deletes' = deletes + 1
            /\ \E out \in DeleteOutcomes :
                 LET e == CASE out = "204" -> "nil"
                            [] out = "200" -> "EOF"
                            [] OTHER       -> "ErrQueryFailed"
                 IN /\ qrNextURI' = IF out = "204" THEN 0 ELSE qrNextURI
                    /\ closes' = Append(closes, [afterEOF |-> eofProduced,
                                                 delete |-> TRUE, err |-> e])
                    /\ ret' = [op |-> "Close", err |-> e]
    /\ UNCHANGED <<pages, fpc, fUri, ppc, pPage, qpc, qrColumns, qrData,
                   rowindex, delivered, eofProduced, qrPage>>
    /\ UNCHANGED <<nonRowsVars, qctx>>

RowsStep ==
    \/ ExecSeed
    \/ FetcherGet
    \/ FetcherSend
    \/ ParserClosed
    \/ ParserSendURI
    \/ FetchResp
    \/ FetchEOF
    \/ FetchErr
    \/ RowsNext
    \/ RowsColumns
    \/ RowsClose
    \/ CancelQuery

SpecRows == RowsInit /\ [][RowsStep]_vars

\* C8: once io.EOF was produced for the iterator (by fetch, whether called
\* from QueryContext, Columns or Next, or by Next itself), a following
\* driverRows.Close issues no DELETE and returns nil.
C8_CloseAfterEOFNoDelete ==
    \A i \in DOMAIN closes :
        closes[i].afterEOF => (~closes[i].delete /\ closes[i].err = "nil")

-----------------------------------------------------------------------------
(* The spooling pipeline: response processor, segment dispatcher, download  *)
(* workers, decoder workers, ordered streamer, and Next as the consumer.    *)
(* A segment is named by its position in the list of the responses.  The    *)
(* workers of a pool run the same code, so a pool is the number of workers  *)
(* waiting for input and the sets of segments held by the workers that are  *)
(* submitting a result or publishing an error; the others have exited.      *)
(* decodedSegments, spoolingRowsChannel and errors are unbuffered.          *)

MaxSegs == 3
MaxSegRows == 2
MaxBound == 2
MaxWorkers == 2

SegTypes == {"inline", "spooled"}

\* n segments of r rows each with contiguous row offsets, listed in order
WellFormed(n, r, tp) ==
    [i \in 1..n |-> [off |-> (i - 1) * r, rows |-> r, type |-> tp[i],
                     fault |-> "none"]]

Without(s, i) == [j \in 1..(Len(s) - 1) |-> IF j < i THEN s[j] ELSE s[j + 1]]

\* what a coordinator can list: the well-formed lists, and each of them with
\* one deviation: two segments listed in the other order, a segment missing,
\* a segment of an unknown type, a segment with unparsable metadata, a
\* segment whose download fails, a segment whose data does not decode; and
\* the lists whose first two segments both fail to download or to decode
Deviations(s) ==
    {s}
    \cup (IF Len(s) >= 2 THEN {[s EXCEPT ![1] = s[2], ![2] = s[1]]} ELSE {})
    \cup {Without(s, i) : i \in 1..(Len(s) - 1)}
    \cup {[s EXCEPT ![i].type = "other"] : i \in 1..Len(s)}
    \cup {[s EXCEPT ![i].fault = f] : i \in 1..Len(s), f \in {"meta", "decode"}}
    \cup {[s EXCEPT ![i].fault = "download"] :
            i \in {j \in 1..Len(s) : s[j].type = "spooled"}}
    \cup (IF Len(s) >= 2
          THEN {[s EXCEPT ![1].fault = "decode", ![2].fault = "decode"]}
               \cup (IF s[1].type = "spooled" /\ s[2].type = "spooled"
                     THEN {[s EXCEPT ![1].fault = "download",
                                     ![2].fault = "download"]}
                     ELSE {})
          ELSE {})

PipeInputs ==
    UNION {Deviations(WellFormed(n, r, tp)) :
             n \in 1..MaxSegs, r \in 1..MaxSegRows,
             tp \in {[i \in 1..MaxSegs |-> t] : t \in SegTypes}
                    \cup {[i \in 1..MaxSegs |->
                             IF i = 1 THEN "inline" ELSE "spooled"]}}

Off(s) == segs[s].off
RowsOf(s) == segs[s].rows

\* slices.SortFunc(buffer, by rowOffset): not stable, so every ordering of
\* equal offsets is possible
SortedPerms(buf) ==
    {q \in [1..Len(buf) -> Range(buf)] :
        /\ Range(q) = Range(buf)
        /\ \A i \in 1..Len(q), j \in 1..Len(q) :
              i < j => Off(q[i]) <= Off(q[j])}

\* fetch() has received the first spooled response: the workers and the
\* streamer are started, the iterator is in spooled mode
PipeInit ==
    /\ ConnIdle
    /\ AuxIdle
    /\ qctx = "live"
    /\ pages = <<>>
    /\ fpc = "none"
    /\ fUri = 0
    /\ ppc = "none"
    /\ pPage = 0
    /\ qpc = "spool"
    /\ qrErr = "nil"
    /\ qrColumns = TRUE
    /\ qrData = 0
    /\ rowindex = 0
    /\ qrNextURI = 1
    /\ delivered = <<>>
    /\ eofProduced = FALSE
    /\ qrPage = 0
    /\ ret = [op |-> "QueryContext", err |-> "nil"]
    /\ closes = <<>>
    /\ deletes = 0
    /\ segs \in PipeInputs
    /\ cfg \in [bound : 1..MaxBound, workers : 1..MaxWorkers]
    /\ rpc = "queue"
    /\ qi = 1
    /\ toProcess = <<>>
    /\ dpc = "recv"
    /\ dseg = 0
    /\ tokens = 0
    /\ admitted = {}
    /\ released = <<>>
    /\ metaCh = <<>>
    /\ toDecode = <<>>
    /\ dl = [idle |-> cfg.workers, send |-> {}, err |-> {}]
    /\ dec = [idle |-> cfg.workers, send |-> {}, err |-> {}]
    /\ dlCancelled = FALSE
    /\ decCancelled = FALSE
    /\ spc = "recv"
    /\ buffer = <<>>
    /\ consumed = 0
    /\ nextExpectedOffset = 0
    /\ emitted = <<>>

\* the channels closed by waitForAllSpoolingWorkersFinish, by its progress
QueueClosed == rpc \in {"waitDisp", "waitDl", "waitDec", "waitStream", "exit"}
MetaClosed == rpc \in {"waitDl", "waitDec", "waitStream", "exit"}
ToDecodeClosed == rpc \in {"waitDec", "waitStream", "exit"}
DecodedClosed == rpc \in {"waitStream", "exit"}
\* the dispatcher's deferred close(st.segmentThrottleCh)
ThrottleClosed == dpc = "exit"

\* the streamer's loop condition after sorting or after a release: emit the
\* next buffered segment if it is the expected one, else drop the emitted
\* prefix and go back to receiving (consumed is reset before its next use)
StreamerLoop(buf, c, nexp) ==
    IF c < Len(buf) /\ Off(buf[c + 1]) = nexp
    THEN /\ buffer' = buf
         /\ consumed' = c
         /\ spc' = "emit"
    ELSE /\ buffer' = SubSeq(buf, c + 1, Len(buf))
         /\ consumed' = 0
         /\ spc' = "recv"

NextWaits_NoErrCheck == qpc = "spool" /\ rowindex >= qrData

\* Next is in its select: no error stored and the batch is used up
NextWaits == qpc = "spool" /\ qrErr = "nil" /\ rowindex >= qrData

\* the dispatcher's push into segmentThrottleCh (capacity bound) for segment s
PushToken_Unthrottled(t, bound, s) ==
    /\ tokens' = Min(t + 1, bound)
    /\ admitted' = admitted \cup {s}

PushToken(t, bound, s) ==
    /\ t < bound
    /\ tokens' = t + 1
    /\ admitted' = admitted \cup {s}

\* decodeSegment fails on data that does not decode, and on zero-valued
\* metadata (segment size mismatch)
DecodeFails(seg) == seg.fault \in {"meta", "decode"}

BufferFull_Above(n, bound) == n > bound

BufferFull_Never(n, bound) == FALSE

\* streamer: len(buffer) >= qr.stmt.spoolingMaxOutOfOrderSegments
BufferFull(n, bound) == n >= bound

\* streamer: nextExpectedOffset += int64(len(buffer[consumed].queryData))
Advance_One(nexp, s) == nexp + 1

Advance(nexp, s) == nexp + RowsOf(s)

\* queueSpoolingSegments: qr.stmt.segmentsToProccess <- segment (capacity 1000)
QueueSegment ==
    /\ rpc = "queue"
    /\ qi <= Len(segs)
    /\ toProcess' = Append(toProcess, qi)
    /\ qi' = qi + 1
    /\ UNCHANGED <<pages, fpc, fUri, ppc, pPage, qpc, qrErr, qrColumns,
                   qrData, rowindex, qrNextURI, delivered, eofProduced,
                   qrPage, ret, closes, deletes, segs, cfg, rpc, dpc, dseg,
                   tokens, admitted, released, metaCh, toDecode, dl, dec,
                   dlCancelled, decCancelled, spc, buffer, consumed,
                   nextExpectedOffset, emitted>>
    /\ UNCHANGED nonPipeVars

\* the response processor reads the closed queryResponses:
\* waitForAllSpoolingWorkersFinish closes segmentsToProccess
JoinStart ==
    /\ rpc = "queue"
    /\ qi > Len(segs)
    /\ rpc' = "waitDisp"
    /\ UNCHANGED <<pages, fpc, fUri, ppc, pPage, qpc, qrErr, qrColumns,
                   qrData, rowindex, qrNextURI, delivered, eofProduced,
                   qrPage, ret, closes, deletes, segs, cfg, qi, toProcess,
                   dpc, dseg, tokens, admitted, released, metaCh, toDecode,
                   dl, dec, dlCancelled, decCancelled, spc, buffer, consumed,
                   nextExpectedOffset, emitted>>
    /\ UNCHANGED nonPipeVars

PoolGone_BeforePublish(pool) == pool.idle = 0 /\ pool.send = {}

\* sync.WaitGroup.Wait: every worker of the pool has returned, none is left
\* waiting for input, submitting a result or publishing an error
PoolGone(pool) == pool.idle = 0 /\ pool.send = {} /\ pool.err = {}

\* <-segmentDispatcherDoneCh, then close(spooledSegmentsMetadata)
JoinDispatcher ==
    /\ rpc = "waitDisp"
    /\ dpc = "exit"
    /\ rpc' = "waitDl"
    /\ UNCHANGED <<pages, fpc, fUri, ppc, pPage, qpc, qrErr, qrColumns,
                   qrData, rowindex, qrNextURI, delivered, eofProduced,
                   qrPage, ret, closes, deletes, segs, cfg, qi, toProcess,
                   dpc, dseg, tokens, admitted, released, metaCh, toDecode,
                   dl, dec, dlCancelled, decCancelled, spc, buffer, consumed,
                   nextExpectedOffset, emitted>>
    /\ UNCHANGED nonPipeVars

\* waitDownloadSegmentsWorkers.Wait(), then close(spooledSegmentsToDecode)
JoinDownloaders ==
    /\ rpc = "waitDl"
    /\ PoolGone(dl)
    /\ rpc' = "waitDec"
    /\ UNCHANGED <<pages, fpc, fUri, ppc, pPage, qpc, qrErr, qrColumns,
                   qrData, rowindex, qrNextURI, delivered, eofProduced,
                   qrPage, ret, closes, deletes, segs, cfg, qi, toProcess,
                   dpc, dseg, tokens, admitted, released, metaCh, toDecode,
                   dl, dec, dlCancelled, decCancelled, spc, buffer, consumed,
                   nextExpectedOffset, emitted>>
    /\ UNCHANGED nonPipeVars

\* waitSegmentDecodersWorkers.Wait(), then close(decodedSegments)
JoinDecoders ==
    /\ rpc = "waitDec"
    /\ PoolGone(dec)
    /\ rpc' = "waitStream"
    /\ UNCHANGED <<pages, fpc, fUri, ppc, pPage, qpc, qrErr, qrColumns,
                   qrData, rowindex, qrNextURI, delivered, eofProduced,
                   qrPage, ret, closes, deletes, segs, cfg, qi, toProcess,
                   dpc, dseg, tokens, admitted, released, metaCh, toDecode,
                   dl, dec, dlCancelled, decCancelled, spc, buffer, consumed,
                   nextExpectedOffset, emitted>>
    /\ UNCHANGED nonPipeVars

\* <-spoolingProcesserDone
JoinStreamer ==
    /\ rpc = "waitStream"
    /\ spc = "exit"
    /\ rpc' = "exit"
    /\ UNCHANGED <<pages, fpc, fUri, ppc, pPage, qpc, qrErr, qrColumns,
                   qrData, rowindex, qrNextURI, delivered, eofProduced,
                   qrPage, ret, closes, deletes, segs, cfg, qi, toProcess,
                   dpc, dseg, tokens, admitted, released, metaCh, toDecode,
                   dl, dec, dlCancelled, decCancelled, spc, buffer, consumed,
                   nextExpectedOffset, emitted>>
    /\ UNCHANGED nonPipeVars

\* dispatcher: case segmentToProccess, ok := <-st.segmentsToProccess
DispatcherRecv ==
    /\ dpc = "recv"
    /\ IF toProcess # <<>>
       THEN /\ dseg' = Head(toProcess)
            /\ toProcess' = Tail(toProcess)
            /\ dpc' = "token"
       ELSE /\ QueueClosed
            /\ dpc' = "exit"
            /\ UNCHANGED <<dseg, toProcess>>
    /\ UNCHANGED <<pages, fpc, fUri, ppc, pPage, qpc, qrErr, qrColumns,
                   qrData, rowindex, qrNextURI, delivered, eofProduced,
                   qrPage, ret, closes, deletes, segs, cfg, rpc, qi, tokens,
                   admitted, released, metaCh, toDecode, dl, dec,
                   dlCancelled, decCancelled, spc, buffer, consumed,
                   nextExpectedOffset, emitted>>
    /\ UNCHANGED nonPipeVars

\* dispatcher: st.segmentThrottleCh <- struct{}{}, then the metadata is parsed;
\* an error is published and the dispatcher goes on
DispatcherToken ==
    /\ dpc = "token"
    /\ PushToken(tokens, cfg.bound, dseg)
    /\ dpc' = IF segs[dseg].fault = "meta" THEN "errMeta" ELSE "route"
    /\ UNCHANGED <<pages, fpc, fUri, ppc, pPage, qpc, qrErr, qrColumns,
                   qrData, rowindex, qrNextURI, delivered, eofProduced,
                   qrPage, ret, closes, deletes, segs, cfg, rpc, qi,
                   toProcess, dseg, released, metaCh, toDecode, dl, dec,
                   dlCancelled, decCancelled, spc, buffer, consumed,
                   nextExpectedOffset, emitted>>
    /\ UNCHANGED nonPipeVars

\* dispatcher: switch segment["type"]: an inline segment goes to the decode
\* queue, a spooled one to the download queue, any other type goes nowhere
DispatcherRoute ==
    /\ dpc = "route"
    /\ CASE segs[dseg].type = "inline" ->
              /\ Len(toDecode) < cfg.bound
              /\ toDecode' = Append(toDecode, dseg)
              /\ UNCHANGED metaCh
         [] segs[dseg].type = "spooled" ->
              /\ Len(metaCh) < cfg.bound
              /\ metaCh' = Append(metaCh, dseg)
              /\ UNCHANGED toDecode
         [] OTHER -> UNCHANGED <<toDecode, metaCh>>
    /\ dpc' = "recv"
    /\ UNCHANGED <<pages, fpc, fUri, ppc, pPage, qpc, qrErr, qrColumns,
                   qrData, rowindex, qrNextURI, delivered, eofProduced,
                   qrPage, ret, closes, deletes, segs, cfg, rpc, qi,
                   toProcess, dseg, tokens, admitted, released, dl, dec,
                   dlCancelled, decCancelled, spc, buffer, consumed,
                   nextExpectedOffset, emitted>>
    /\ UNCHANGED nonPipeVars

\* download worker: case metadata, ok := <-st.spooledSegmentsMetadata, then
\* fetchSegment
DownloadRecv ==
    /\ dl.idle > 0
    /\ IF metaCh # <<>>
       THEN /\ metaCh' = Tail(metaCh)
            /\ dl' = IF segs[Head(metaCh)].fault = "download"
                     THEN [dl EXCEPT !.idle = @ - 1, !.err = @ \cup {Head(metaCh)}]
                     ELSE [dl EXCEPT !.idle = @ - 1, !.send = @ \cup {Head(metaCh)}]
       ELSE /\ MetaClosed
            /\ dl' = [dl EXCEPT !.idle = @ - 1]
            /\ UNCHANGED metaCh
    /\ UNCHANGED <<pages, fpc, fUri, ppc, pPage, qpc, qrErr, qrColumns,
                   qrData, rowindex, qrNextURI, delivered, eofProduced,
                   qrPage, ret, closes, deletes, segs, cfg, rpc, qi,
                   toProcess, dpc, dseg, tokens, admitted, released,
                   toDecode, dec, dlCancelled, decCancelled, spc, buffer,
                   consumed, nextExpectedOffset, emitted>>
    /\ UNCHANGED nonPipeVars

\* download worker: case st.spooledSegmentsToDecode <- segment
DownloadSend ==
    /\ \E s \in dl.send :
          /\ Len(toDecode) < cfg.bound
          /\ toDecode' = Append(toDecode, s)
          /\ dl' = [dl EXCEPT !.send = @ \ {s}, !.idle = @ + 1]
    /\ UNCHANGED <<pages, fpc, fUri, ppc, pPage, qpc, qrErr, qrColumns,
                   qrData, rowindex, qrNextURI, delivered, eofProduced,
                   qrPage, ret, closes, deletes, segs, cfg, rpc, qi,
                   toProcess, dpc, dseg, tokens, admitted, released, metaCh,
                   dec, dlCancelled, decCancelled, spc, buffer, consumed,
                   nextExpectedOffset, emitted>>
    /\ UNCHANGED nonPipeVars

\* download worker: case <-ctx.Done(), waiting for input or submitting
DownloadCancelled ==
    /\ dlCancelled
    /\ \/ /\ dl.idle > 0
          /\ dl' = [dl EXCEPT !.idle = @ - 1]
       \/ \E s \in dl.send : dl' = [dl EXCEPT !.send = @ \ {s}]
    /\ UNCHANGED <<pages, fpc, fUri, ppc, pPage, qpc, qrErr, qrColumns,
                   qrData, rowindex, qrNextURI, delivered, eofProduced,
                   qrPage, ret, closes, deletes, segs, cfg, rpc, qi,
                   toProcess, dpc, dseg, tokens, admitted, released, metaCh,
                   toDecode, dec, dlCancelled, decCancelled, spc, buffer,
                   consumed, nextExpectedOffset, emitted>>
    /\ UNCHANGED nonPipeVars

\* decoder worker: case segmentToDecode, ok := <-st.spooledSegmentsToDecode,
\* then decodeSegment; on failure cancelDecodersWorkers()
DecoderRecv ==
    /\ dec.idle > 0
    /\ IF toDecode # <<>>
       THEN /\ toDecode' = Tail(toDecode)
            /\ IF DecodeFails(segs[Head(toDecode)])
               THEN /\ dec' = [dec EXCEPT !.idle = @ - 1,
                                          !.err = @ \cup {Head(toDecode)}]
                    /\ decCancelled' = TRUE
               ELSE /\ dec' = [dec EXCEPT !.idle = @ - 1,
                                          !.send = @ \cup {Head(toDecode)}]
                    /\ UNCHANGED decCancelled
       ELSE /\ ToDecodeClosed
            /\ dec' = [dec EXCEPT !.idle = @ - 1]
            /\ UNCHANGED <<toDecode, decCancelled>>
    /\ UNCHANGED <<pages, fpc, fUri, ppc, pPage, qpc, qrErr, qrColumns,
                   qrData, rowindex, qrNextURI, delivered, eofProduced,
                   qrPage, ret, closes, deletes, segs, cfg, rpc, qi,
                   toProcess, dpc, dseg, tokens, admitted, released, metaCh,
                   dl, dlCancelled, spc, buffer, consumed,
                   nextExpectedOffset, emitted>>
    /\ UNCHANGED nonPipeVars

\* decoder worker: case <-ctx.Done(), waiting for input or submitting
DecoderCancelled ==
    /\ decCancelled
    /\ \/ /\ dec.idle > 0
          /\ dec' = [dec EXCEPT !.idle = @ - 1]
       \/ \E s \in dec.send : dec' = [dec EXCEPT !.send = @ \ {s}]
    /\ UNCHANGED <<pages, fpc, fUri, ppc, pPage, qpc, qrErr, qrColumns,
                   qrData, rowindex, qrNextURI, delivered, eofProduced,
                   qrPage, ret, closes, deletes, segs, cfg, rpc, qi,
                   toProcess, dpc, dseg, tokens, admitted, released, metaCh,
                   toDecode, dl, dlCancelled, decCancelled, spc, buffer,
                   consumed, nextExpectedOffset, emitted>>
    /\ UNCHANGED nonPipeVars

\* decoder: st.decodedSegments <- segment, received by the streamer: append,
\* then either wait for the expected offset (and publish the out-of-order error
\* when the buffer is full) or sort and start emitting
StreamerRecv ==
    /\ spc = "recv"
    /\ \E s \in dec.send :
          /\ dec' = [dec EXCEPT !.send = @ \ {s}, !.idle = @ + 1]
          /\ IF nextExpectedOffset # Off(s)
             THEN /\ buffer' = Append(buffer, s)
                  /\ spc' = IF BufferFull(Len(buffer) + 1, cfg.bound)
                            THEN "err" ELSE "recv"
                  /\ UNCHANGED consumed
             ELSE \E q \in SortedPerms(Append(buffer, s)) :
                     StreamerLoop(q, 0, nextExpectedOffset)
    /\ UNCHANGED <<pages, fpc, fUri, ppc, pPage, qpc, qrErr, qrColumns,
                   qrData, rowindex, qrNextURI, delivered, eofProduced,
                   qrPage, ret, closes, deletes, segs, cfg, rpc, qi,
                   toProcess, dpc, dseg, tokens, admitted, released, metaCh,
                   toDecode, dl, dlCancelled, decCancelled,
                   nextExpectedOffset, emitted>>
    /\ UNCHANGED nonPipeVars

\* streamer: decodedSegments is closed: return, closing spoolingRowsChannel
StreamerClosed ==
    /\ spc = "recv"
    /\ DecodedClosed
    /\ spc' = "exit"
    /\ UNCHANGED <<pages, fpc, fUri, ppc, pPage, qpc, qrErr, qrColumns,
                   qrData, rowindex, qrNextURI, delivered, eofProduced,
                   qrPage, ret, closes, deletes, segs, cfg, rpc, qi,
                   toProcess, dpc, dseg, tokens, admitted, released, metaCh,
                   toDecode, dl, dec, dlCancelled, decCancelled, buffer,
                   consumed, nextExpectedOffset, emitted>>
    /\ UNCHANGED nonPipeVars

\* streamer: <-qr.stmt.segmentThrottleCh (a closed channel yields at once),
\* nextExpectedOffset += len(queryData), consumed++
StreamerRelease ==
    /\ spc = "release"
    /\ tokens > 0 \/ ThrottleClosed
    /\ tokens' = IF tokens > 0 THEN tokens - 1 ELSE 0
    /\ released' = Append(released, buffer[consumed + 1])
    /\ nextExpectedOffset' = Advance(nextExpectedOffset, buffer[consumed + 1])
    /\ StreamerLoop(buffer, consumed + 1, nextExpectedOffset')
    /\ UNCHANGED <<pages, fpc, fUri, ppc, pPage, qpc, qrErr, qrColumns,
                   qrData, rowindex, qrNextURI, delivered, eofProduced,
                   qrPage, ret, closes, deletes, segs, cfg, rpc, qi,
                   toProcess, dpc, dseg, admitted, metaCh, toDecode, dl, dec,
                   dlCancelled, decCancelled, emitted>>
    /\ UNCHANGED nonPipeVars

\* Next: case qr.data, ok = <-qr.stmt.spoolingRowsChannel, sent by the streamer;
\* then next(dest) hands out row 0
PipeNextRecv ==
    /\ NextWaits
    /\ spc = "emit"
    /\ emitted' = Append(emitted, buffer[consumed + 1])
    /\ spc' = "release"
    /\ qrData' = RowsOf(buffer[consumed + 1])
    /\ rowindex' = 1
    /\ ret' = [op |-> "Next", err |-> "nil"]
    /\ UNCHANGED <<pages, fpc, fUri, ppc, pPage, qpc, qrErr, qrColumns,
                   qrNextURI, delivered, eofProduced, qrPage, closes,
                   deletes, segs, cfg, rpc, qi, toProcess, dpc, dseg, tokens,
                   admitted, released, metaCh, toDecode, dl, dec,
                   dlCancelled, decCancelled, buffer, consumed,
                   nextExpectedOffset>>
    /\ UNCHANGED nonPipeVars

\* Next: a row of the current batch, next(dest)
PipeNextRow ==
    /\ qpc = "spool"
    /\ qrErr = "nil"
    /\ rowindex < qrData
    /\ rowindex' = rowindex + 1
    /\ ret' = [op |-> "Next", err |-> "nil"]
    /\ UNCHANGED <<pages, fpc, fUri, ppc, pPage, qpc, qrErr, qrColumns,
                   qrData, qrNextURI, delivered, eofProduced, qrPage, closes,
                   deletes, segs, cfg, rpc, qi, toProcess, dpc, dseg, tokens,
                   admitted, released, metaCh, toDecode, dl, dec,
                   dlCancelled, decCancelled, spc, buffer, consumed,
                   nextExpectedOffset, emitted>>
    /\ UNCHANGED nonPipeVars

\* Next: spoolingRowsChannel is closed: qr.err = io.EOF
PipeNextEOF ==
    /\ NextWaits
    /\ spc = "exit"
    /\ qrErr' = "EOF"
    /\ eofProduced' = TRUE
    /\ ret' = [op |-> "Next", err |-> "EOF"]
    /\ UNCHANGED <<pages, fpc, fUri, ppc, pPage, qpc, qrColumns, qrData,
                   rowindex, qrNextURI, delivered, qrPage, closes, deletes,
                   segs, cfg, rpc, qi, toProcess, dpc, dseg, tokens,
                   admitted, released, metaCh, toDecode, dl, dec,
                   dlCancelled, decCancelled, spc, buffer, consumed,
                   nextExpectedOffset, emitted>>
    /\ UNCHANGED nonPipeVars

\* Next: case err := <-qr.stmt.errors, sent by a worker: both scopes are
\* cancelled and the error is stored; the dispatcher and the streamer go on
\* after publishing, a download or decoder worker returns
PipeNextErr ==
    /\ NextWaits
    /\ \/ /\ dpc = "errMeta"
          /\ dpc' = "route"
          /\ qrErr' = "ErrMetadata"
          /\ UNCHANGED <<dl, dec, spc>>
       \/ /\ \E s \in dl.err : dl' = [dl EXCEPT !.err = @ \ {s}]
          /\ qrErr' = "ErrDownload"
          /\ UNCHANGED <<dpc, dec, spc>>
       \/ /\ \E s \in dec.err : dec' = [dec EXCEPT !.err = @ \ {s}]
          /\ qrErr' = "ErrDecode"
          /\ UNCHANGED <<dpc, dl, spc>>
       \/ /\ spc = "err"
          /\ spc' = "recv"
          /\ qrErr' = "ErrOutOfOrder"
          /\ UNCHANGED <<dpc, dl, dec>>
    /\ decCancelled' = TRUE
    /\ dlCancelled' = TRUE
    /\ ret' = [op |-> "Next", err |-> qrErr']
    /\ UNCHANGED <<pages, fpc, fUri, ppc, pPage, qpc, qrColumns, qrData,
                   rowindex, qrNextURI, delivered, eofProduced, qrPage,
                   closes, deletes, segs, cfg, rpc, qi, toProcess, dseg,
                   tokens, admitted, released, metaCh, toDecode, buffer,
                   consumed, nextExpectedOffset, emitted>>
    /\ UNCHANGED nonPipeVars

PipeStep ==
    \/ QueueSegment
    \/ JoinStart
    \/ JoinDispatcher
    \/ JoinDownloaders
    \/ JoinDecoders
    \/ JoinStreamer
    \/ DispatcherRecv
    \/ DispatcherToken
    \/ DispatcherRoute
    \/ DownloadRecv
    \/ DownloadSend
    \/ DownloadCancelled
    \/ DecoderRecv
    \/ DecoderCancelled
    \/ StreamerRecv
    \/ StreamerClosed
    \/ StreamerRelease
    \/ PipeNextRecv
    \/ PipeNextRow
    \/ PipeNextEOF
    \/ PipeNextErr

SpecPipe == PipeInit /\ [][PipeStep]_vars

-----------------------------------------------------------------------------
(* Claims about the spooling pipeline *)

\* the segments of a known type, whose rows the client can obtain
KnownSegs == {i \in 1..Len(segs) : segs[i].type \in SegTypes}

\* the orderings of the known segments by increasing rowOffset
InOffsetOrder ==
    {q \in [1..Cardinality(KnownSegs) -> KnownSegs] :
        /\ Range(q) = KnownSegs
        /\ \A i \in 1..Len(q), j \in 1..Len(q) :
              i < j => Off(q[i]) <= Off(q[j])}

\* C1: when a spooled query completes without error (Next returned io.EOF),
\* the batches put on spoolingRowsChannel are exactly the segments' rows in
\* increasing rowOffset order: none out of order, none twice, none omitted.
C1_OrderedEmission ==
    (qpc = "spool" /\ qrErr = "EOF") => emitted \in InOffsetOrder

\* C2: the segments admitted by the dispatcher (token pushed) whose rows the
\* streamer has not yet emitted are at most spoolingMaxOutOfOrderSegments.
C2_InFlightBounded ==
    Cardinality(admitted \ Range(emitted)) <= cfg.bound

\* the throttle is full, as many segments as the bound are in flight and the
\* dispatcher is held back with one more
C2_Witness ==
    /\ dpc = "token"
    /\ tokens = cfg.bound
    /\ cfg.bound >= 2
    /\ Cardinality(admitted \ Range(emitted)) = cfg.bound

\* C3: every segment the dispatcher took a token for has that token released
\* by the streamer after its rows were emitted: once the streamer has
\* returned, no admitted segment is left with its token unreleased, and no
\* token was released twice.
C3_EveryTokenReleased ==
    spc = "exit" =>
        /\ Range(released) = admitted
        /\ Len(released) = Cardinality(admitted)

-----------------------------------------------------------------------------
(* handleResponseError on the decoded statement response (exec) and on the  *)
(* decoded paging responses (the parser goroutine), and the way its result  *)
(* reaches the caller.                                                      *)

MaxErrorCode == 2

\* error values
NilError == [kind |-> "nil"]
ErrQueryCancelled == [kind |-> "ErrQueryCancelled"]
ErrQueryFailed(status, reason) ==
    [kind |-> "ErrQueryFailed", StatusCode |-> status, Reason |-> reason]

\* the error object of a response: ErrTrino
ErrorNames == {"", "USER_CANCELLED", "USER_CANCELED", "SYNTAX_ERROR"}
ErrTrinoSet ==
    [ErrorName : ErrorNames, ErrorType : {"USER_ERROR", "INTERNAL_ERROR"},
     ErrorCode : 0..MaxErrorCode]

handleResponseError_AllFailed(status, respErr) ==
    IF respErr.ErrorName = "" THEN NilError
    ELSE ErrQueryFailed(status, respErr)

handleResponseError(status, respErr) ==
    CASE respErr.ErrorName = "" -> NilError
      [] respErr.ErrorName = "USER_CANCELLED" -> ErrQueryCancelled
      [] OTHER -> ErrQueryFailed(status, respErr)

\* the operations through which an error on the errors channel reaches the
\* caller: each of them calls fetch
FetchCallers == {"QueryContext", "ExecContext", "Next", "Columns"}

\* a response decoded by exec (POST) or by the parser (GET); roundTrip only
\* returns responses of status 200
Decoded(via) ==
    {[pc |-> "decoded", via |-> via, caller |-> c, status |-> StatusOK,
      respErr |-> e, err |-> NilError, out |-> NilError] :
        c \in IF via = "POST" THEN {"QueryContext", "ExecContext"}
              ELSE FetchCallers,
        e \in ErrTrinoSet}

RespInit ==
    /\ ConnIdle
    /\ RowsIdle
    /\ PipeIdle
    /\ ArrivalsIdle
    /\ XcIdle
    /\ PgIdle
    /\ SfIdle
    /\ ClIdle
    /\ CodecIdle
    /\ hr \in Decoded("POST")

\* exec: return &sr, handleResponseError(...), and QueryContext/ExecContext
\* return that error; parser: err = handleResponseError(...), published on
\* st.errors if not nil, else the response goes on
HandleResponse ==
    /\ hr.pc = "decoded"
    /\ LET err == handleResponseError(hr.status, hr.respErr)
       IN hr' = IF hr.via = "POST"
                THEN [hr EXCEPT !.pc = "returned", !.err = err, !.out = err]
                ELSE IF err = NilError
                THEN [hr EXCEPT !.pc = "forwarded", !.err = err]
                ELSE [hr EXCEPT !.pc = "publishing", !.err = err]
    /\ UNCHANGED nonHrVars

\* fetch: case err = <-qr.stmt.errors: qr.err = err; return err
FetchTakesError ==
    /\ hr.pc = "publishing"
    /\ hr' = [hr EXCEPT !.pc = "fetched"]
    /\ UNCHANGED nonHrVars

\* the caller of fetch returns the error; Columns stores it in qr.err and
\* returns no names
CallerReturns ==
    /\ hr.pc = "fetched"
    /\ hr' = IF hr.caller = "Columns"
             THEN [hr EXCEPT !.pc = "stored"]
             ELSE [hr EXCEPT !.pc = "returned", !.out = hr.err]
    /\ UNCHANGED nonHrVars

\* Next after Columns: if qr.err != nil { return qr.err }
NextReturnsStored ==
    /\ hr.pc = "stored"
    /\ hr' = [hr EXCEPT !.pc = "returned", !.out = hr.err]
    /\ UNCHANGED nonHrVars

\* without an error the fetcher gets the next page and the parser decodes it
NextResponse ==
    /\ \/ hr.pc = "forwarded"
       \/ hr.pc = "returned" /\ hr.via = "POST" /\ hr.out = NilError
    /\ hr' \in Decoded("GET")
    /\ UNCHANGED nonHrVars

RespStep ==
    \/ HandleResponse
    \/ FetchTakesError
    \/ CallerReturns
    \/ NextReturnsStored
    \/ NextResponse

SpecResp == RespInit /\ [][RespStep]_vars

\* C11: no error is raised for an empty errorName; USER_CANCELLED surfaces as
\* ErrQueryCancelled; any other errorName surfaces as an ErrQueryFailed whose
\* Reason is the server's error object and whose StatusCode is the HTTP
\* status.
C11_ErrorMapping ==
    /\ hr.pc \in {"publishing", "fetched", "stored"} => hr.respErr.ErrorName # ""
    /\ hr.pc = "forwarded" => hr.respErr.ErrorName = ""
    /\ hr.pc = "returned" =>
          /\ hr.respErr.ErrorName = "" => hr.out = NilError
          /\ hr.respErr.ErrorName = "USER_CANCELLED" =>
                hr.out = ErrQueryCancelled
          /\ hr.respErr.ErrorName \notin {"", "USER_CANCELLED"} =>
                /\ hr.out.kind = "ErrQueryFailed"
                /\ hr.out.Reason = hr.respErr
                /\ hr.out.StatusCode = hr.status

\* Next has returned ErrQueryCancelled for a paging response
C11_Witness ==
    /\ hr.pc = "returned"
    /\ hr.via = "GET"
    /\ hr.caller = "Next"
    /\ hr.respErr.ErrorName = "USER_CANCELLED"
    /\ hr.out = ErrQueryCancelled

-----------------------------------------------------------------------------
(* Cancellation of the caller's context while rows are read *)

\* C12: after the caller's context is cancelled while rows are being read,
\* Next does not end with any error other than context.Canceled, and by then
\* the DELETE has been sent (here: the caller itself has not called Close).
C12_CancelSurfaces ==
    (qctx = "cancelled_reading" /\ closes = <<>> /\ ret.op = "Next"
        /\ ret.err # "nil")
    => (ret.err = "Canceled" /\ deletes >= 1)

-----------------------------------------------------------------------------
(* The ordered streamer under a given order of arrival of the decoded       *)
(* segments: the stages before it have handed over every segment, one       *)
(* decoder worker delivers them in the order of arrivals.                   *)

\* the order in which the segments (named by rank of rowOffset, from 0)
\* reach the streamer
ArrivalOrder == <<2, 0, 1, 4, 3>>
ArrivalBounds == {1, 2, 10}

ArrivalInit ==
    /\ ConnIdle
    /\ HrIdle
    /\ XcIdle
    /\ PgIdle
    /\ SfIdle
    /\ ClIdle
    /\ CodecIdle
    /\ qctx = "live"
    /\ pages = <<>>
    /\ fpc = "none"
    /\ fUri = 0
    /\ ppc = "none"
    /\ pPage = 0
    /\ qpc = "spool"
    /\ qrErr = "nil"
    /\ qrColumns = TRUE
    /\ qrData = 0
    /\ rowindex = 0
    /\ qrNextURI = 1
    /\ delivered = <<>>
    /\ eofProduced = FALSE
    /\ qrPage = 0
    /\ ret = [op |-> "QueryContext", err |-> "nil"]
    /\ closes = <<>>
    /\ deletes = 0
    /\ \E r \in 1..MaxSegRows :
          segs = WellFormed(Len(ArrivalOrder), r,
                            [i \in 1..Len(ArrivalOrder) |-> "spooled"])
    /\ cfg \in [bound : ArrivalBounds, workers : {1}]
    /\ arrivals = [i \in 1..Len(ArrivalOrder) |-> ArrivalOrder[i] + 1]
    /\ rpc = "waitDec"
    /\ qi = Len(ArrivalOrder) + 1
    /\ toProcess = <<>>
    /\ dpc = "exit"
    /\ dseg = 0
    /\ tokens = 0
    /\ admitted = 1..Len(ArrivalOrder)
    /\ released = <<>>
    /\ metaCh = <<>>
    /\ toDecode = <<>>
    /\ dl = [idle |-> 0, send |-> {}, err |-> {}]
    /\ dec = [idle |-> 1, send |-> {}, err |-> {}]
    /\ dlCancelled = FALSE
    /\ decCancelled = FALSE
    /\ spc = "recv"
    /\ buffer = <<>>
    /\ consumed = 0
    /\ nextExpectedOffset = 0
    /\ emitted = <<>>

\* the decoder worker has decoded the next segment of the order and is at
\* st.decodedSegments <- segment
ArrivalStep ==
    /\ arrivals # <<>>
    /\ dec.idle > 0
    /\ dec' = [dec EXCEPT !.idle = @ - 1, !.send = @ \cup {Head(arrivals)}]
    /\ arrivals' = Tail(arrivals)
    /\ UNCHANGED <<connVars, rowsVars, qctx, hr, xc, prog, sf, cl, codec>>
    /\ UNCHANGED <<segs, cfg, rpc, qi, toProcess, dpc, dseg, tokens, admitted,
                   released, metaCh, toDecode, dl, dlCancelled, decCancelled,
                   spc, buffer, consumed, nextExpectedOffset, emitted>>

\* every segment was delivered: the worker reads the closed decode queue and
\* returns
ArrivalDone ==
    /\ arrivals = <<>>
    /\ dec.idle > 0
    /\ ToDecodeClosed
    /\ dec' = [dec EXCEPT !.idle = @ - 1]
    /\ UNCHANGED <<connVars, rowsVars, qctx, auxVars>>
    /\ UNCHANGED <<segs, cfg, rpc, qi, toProcess, dpc, dseg, tokens, admitted,
                   released, metaCh, toDecode, dl, dlCancelled, decCancelled,
                   spc, buffer, consumed, nextExpectedOffset, emitted>>

ArrivalNext ==
    \/ ArrivalStep
    \/ ArrivalDone
    \/ DecoderCancelled
    \/ JoinDecoders
    \/ JoinStreamer
    \/ StreamerRecv
    \/ StreamerClosed
    \/ StreamerRelease
    \/ PipeNextRecv
    \/ PipeNextRow
    \/ PipeNextEOF
    \/ PipeNextErr

SpecArrival == ArrivalInit /\ [][ArrivalNext]_vars

InOrderPrefix(q) == \A i \in 1..Len(q) : q[i] = i

\* C13 as stated: with max_out_of_order_segments = 2 the query fails with
\* the out-of-order error, so it never ends successfully with io.EOF.
C13_AsStated ==
    cfg.bound = 2 => qrErr # "EOF"

\* C13: five segments reaching the streamer in the order [2, 0, 1, 4, 3] are
\* emitted in offset order and the query succeeds with
\* max_out_of_order_segments = 10 and with 2; with 1 nothing is emitted and
\* the only end of the query is the out-of-order error.
C13_ReorderOrFail ==
    /\ InOrderPrefix(emitted)
    /\ cfg.bound >= 2 =>
          /\ qrErr \in {"nil", "EOF"}
          /\ spc # "err"
          /\ qrErr = "EOF" => Len(emitted) = Len(ArrivalOrder)
    /\ cfg.bound = 1 =>
          /\ qrErr \in {"nil", "ErrOutOfOrder"}
          /\ emitted = <<>>

\* with bound 2 the query has ended with io.EOF after the five segments
C13_Witness ==
    /\ cfg.bound = 2
    /\ arrivals = <<>>
    /\ qrErr = "EOF"
    /\ emitted = <<1, 2, 3, 4, 5>>

-----------------------------------------------------------------------------
(* Order of delivery in the direct protocol.                                *)

RECURSIVE RowsOfPages(_)
\* the rows of the continuation chain, page after page: <<page, row>>
RowsOfPages(i) ==
    IF i > Len(pages) THEN <<>>
    ELSE [r \in 1..pages[i].rows |-> <<i, r>>] \o RowsOfPages(i + 1)

IsPrefix(p, q) ==
    /\ Len(p) <= Len(q)
    /\ \A i \in 1..Len(p) : p[i] = q[i]

\* C14: in direct mode the rows Next has returned are always an initial part
\* of the rows of the chain taken page after page (no page skipped, repeated
\* or overtaken), and when Next reports io.EOF on an iterator that was not
\* closed every row of every page has been returned.
C14_PagesInChainOrder ==
    /\ IsPrefix(delivered, RowsOfPages(1))
    /\ (ret = [op |-> "Next", err |-> "EOF"] /\ closes = <<>>)
          => delivered = RowsOfPages(1)

\* two pages of two rows each were read to the end
C14_Witness ==
    /\ Len(pages) = MaxPages
    /\ \A i \in 1..Len(pages) : pages[i].rows = MaxRowsPerPage
    /\ ret = [op |-> "Next", err |-> "EOF"]
    /\ closes = <<>>
    /\ Len(delivered) = MaxPages * MaxRowsPerPage

-----------------------------------------------------------------------------
(* The settings driverStmt.exec reads from its arguments: the progress      *)
(* callback and its period are kept on the connection, the spooling worker  *)
(* count and the out-of-order bound on the statement.                       *)

defaultallowedOutOfOrder == 10
defaultSpoolingDownloadWorkers == 5

PeriodValues == {-1, 0, 1}
WorkerValues == {3, 7, 12}
BoundValues == {3, 7, 12}

\* the arguments of one call: which settings are given, with what value, and
\* whether an ordinary query parameter is among them
ExecArgs ==
    {a \in [cb : BOOLEAN, hasPeriod : BOOLEAN, period : PeriodValues,
            hasWorkers : BOOLEAN, workers : WorkerValues,
            hasBound : BOOLEAN, bound : BoundValues, param : BOOLEAN] :
        /\ ~a.hasPeriod => a.period = 0
        /\ ~a.hasWorkers => a.workers = 3
        /\ ~a.hasBound => a.bound = 3}

ExecInit ==
    /\ ConnIdle
    /\ RowsIdle
    /\ PipeIdle
    /\ HrIdle
    /\ ArrivalsIdle
    /\ XcIdle
    /\ PgIdle
    /\ SfIdle
    /\ ClIdle
    /\ CodecIdle

\* the check of callback against period, made where len(args) > 0
InvalidProgress(anyArgs, updater, period) ==
    anyArgs /\ ((updater /\ period = 0) \/ (~updater /\ period > 0))

\* driverStmt.exec up to the POST: the arguments are stored, then the two
\* checks, then the request
Exec(a) ==
    LET anyArgs == a.cb \/ a.hasPeriod \/ a.hasWorkers \/ a.hasBound \/ a.param
        updater == xc.updater \/ a.cb
        period == IF a.hasPeriod THEN a.period ELSE xc.period
        workers == IF a.hasWorkers THEN a.workers ELSE xc.workers
        bound == IF a.hasBound THEN a.bound ELSE xc.bound
    IN xc' = [updater |-> updater, period |-> period,
              workers |-> workers, bound |-> bound,
              out |-> IF InvalidProgress(anyArgs, updater, period)
                      THEN "ErrInvalidProgressCallbackHeader"
                      ELSE IF workers > bound THEN "ErrSpoolingConfig"
                      ELSE "sent",
              started |-> FALSE]

ExecCall ==
    /\ \E a \in ExecArgs : Exec(a)
    /\ UNCHANGED nonXcVars

\* fetch meets a spooled response: startSpoolingProtocolWorkers puts the
\* defaults in place of the zero values and starts the workers
StartSpoolingProtocolWorkers ==
    /\ xc.out = "sent"
    /\ ~xc.started
    /\ xc' = [xc EXCEPT
                !.workers = IF @ = 0 THEN defaultSpoolingDownloadWorkers ELSE @,
                !.bound = IF @ = 0 THEN defaultallowedOutOfOrder ELSE @,
                !.started = TRUE]
    /\ UNCHANGED nonXcVars

\* the connection prepares another statement: a new driverStmt
NewStmt ==
    /\ xc.out # "none"
    /\ xc' = [xc EXCEPT !.workers = 0, !.bound = 0, !.out = "none",
                        !.started = FALSE]
    /\ UNCHANGED nonXcVars

ExecNext ==
    \/ ExecCall
    \/ StartSpoolingProtocolWorkers
    \/ NewStmt

SpecExec == ExecInit /\ [][ExecNext]_vars

\* C15: a statement is sent only when the connection's progress callback and
\* its period are both set or both unset, and a call that ends with exactly
\* one of them set has failed with ErrInvalidProgressCallbackHeader.
C15_CallbackAndPeriodTogether ==
    /\ xc.out = "sent" => (xc.updater <=> xc.period # 0)
    /\ (xc.out # "none" /\ (xc.updater <=> xc.period = 0))
          => xc.out = "ErrInvalidProgressCallbackHeader"

WithDefault(v, d) == IF v = 0 THEN d ELSE v

\* C16: a started pipeline has workers <= bound, and exec rejects a setting
\* only if it breaks workers <= bound once the defaults are applied.
C16_WorkersWithinBound ==
    /\ xc.started => xc.workers <= xc.bound
    /\ xc.out = "ErrSpoolingConfig" =>
          WithDefault(xc.workers, defaultSpoolingDownloadWorkers)
             > WithDefault(xc.bound, defaultallowedOutOfOrder)

-----------------------------------------------------------------------------
(* The progress goroutine started by driverStmt.exec when a callback is     *)
(* installed.  statsCh is unbuffered and every sender uses                  *)
(* select { case statsCh <- stats: default: }, so a value is handed over    *)
(* only if a receiver is waiting at that moment.                            *)
(* Responses are numbered: 0 is the POST response, 1.. the pages.  In       *)
(* direct mode scheduleProgressUpdate runs on the caller's goroutine (in    *)
(* fetch); in spooled mode it runs on the goroutine of                      *)
(* proccessSpollingSegments, next to a caller that may close the statement. *)
(* Time is counted in ticks of the clock read by time.Now().                *)

MaxResponses == 3
MaxTime == 2

ProgressPeriods == {-1, 1, 2}
QueryStates == {"QUEUED", "RUNNING"}

NoCall ==
    [n |-> 0, now |-> 0, last |-> 0, lastState |-> "", state |-> "",
     skipped |-> FALSE, sent |-> "none"]

\* exec has decoded the POST response and executed the go statement: the
\* goroutine exists but has not run yet
ProgressInit ==
    /\ ConnIdle
    /\ RowsIdle
    /\ PipeIdle
    /\ HrIdle
    /\ ArrivalsIdle
    /\ XcIdle
    /\ SfIdle
    /\ ClIdle
    /\ CodecIdle
    /\ \E sp \in BOOLEAN, p \in ProgressPeriods :
          prog = [gpc |-> "new", epc |-> "initial", next |-> 0, cur |-> 0,
                  got |-> <<>>, done |-> FALSE, spooled |-> sp,
                  period |-> p, now |-> 0, last |-> 0, lastState |-> "",
                  chClosed |-> FALSE, fieldNil |-> FALSE, call |-> NoCall,
                  panicked |-> FALSE]

\* select { case statsCh <- stats: default: } with stats of response i, on
\* the open channel: the value goes to a waiting receiver, the goroutine in
\* its select or Close in <-st.statsCh (which then sets st.statsCh = nil);
\* with no receiver waiting it is dropped
TrySendStats(i) ==
    LET toGoroutine ==
            IF prog.gpc = "recv"
            THEN {[prog EXCEPT !.gpc = "update", !.cur = i]} ELSE {}
        toClose ==
            IF prog.epc = "closing"
            THEN {[prog EXCEPT !.epc = "closed", !.fieldNil = TRUE]} ELSE {}
    IN IF toGoroutine \cup toClose = {} THEN {prog}
       ELSE toGoroutine \cup toClose

\* if diff < period && LastQueryState == qrStats.QueryStats.State
ShouldSkip(diff, period, lastState, state) ==
    diff < period /\ lastState = state

\* time passes
Tick ==
    /\ prog.epc # "none"
    /\ ~prog.panicked
    /\ prog.now < MaxTime
    /\ prog' = [prog EXCEPT !.now = @ + 1]
    /\ UNCHANGED nonPgVars

\* the goroutine is scheduled and reaches its select
ProgressStart ==
    /\ prog.gpc = "new"
    /\ ~prog.panicked
    /\ prog' = [prog EXCEPT !.gpc = "recv"]
    /\ UNCHANGED nonPgVars

\* exec: the initial progress callback call, LastCallbackTime = time.Now(),
\* LastQueryState = sr.Stats.State; then exec returns
ExecInitialStats ==
    /\ prog.epc = "initial"
    /\ \E p \in TrySendStats(0), state \in QueryStates :
          prog' = [p EXCEPT !.epc = "rows", !.next = 1, !.last = prog.now,
                            !.lastState = state]
    /\ UNCHANGED nonPgVars

\* st.conn.progressUpdater.Update(stats) returns
ProgressUpdate ==
    /\ prog.gpc = "update"
    /\ ~prog.panicked
    /\ prog' = [prog EXCEPT !.gpc = "recv", !.got = Append(@, prog.cur)]
    /\ UNCHANGED nonPgVars

\* scheduleProgressUpdate for the next page: it returns without a send when
\* the period has not passed and the query state is the same; else the
\* non-blocking send and the update of LastCallbackTime and LastQueryState.
\* A send on the channel the goroutine has closed panics.
ScheduleProgressUpdate ==
    /\ ~prog.panicked
    /\ prog.next <= MaxResponses
    /\ IF prog.spooled
       THEN prog.epc \in {"rows", "closing", "closed"}
       ELSE prog.epc = "rows" /\ ~prog.done
    /\ \E state \in QueryStates :
          LET c == [n |-> prog.next, now |-> prog.now, last |-> prog.last,
                    lastState |-> prog.lastState, state |-> state,
                    skipped |-> FALSE, sent |-> "none"]
          IN IF ShouldSkip(prog.now - prog.last, prog.period,
                           prog.lastState, state)
             THEN prog' = [prog EXCEPT !.next = @ + 1,
                                       !.call = [c EXCEPT !.skipped = TRUE]]
             ELSE IF prog.chClosed
             THEN prog' = [prog EXCEPT !.panicked = TRUE,
                                       !.call = [c EXCEPT !.sent = "panic"]]
             ELSE \E p \in TrySendStats(prog.next) :
                     prog' = [p EXCEPT
                                !.next = @ + 1,
                                !.last = prog.now,
                                !.lastState = state,
                                !.call = [c EXCEPT !.sent =
                                            IF p = prog THEN "dropped"
                                            ELSE "sent"]]
    /\ UNCHANGED nonPgVars

\* driverStmt.Close: close(st.doneCh)
CloseDone ==
    /\ prog.epc = "rows"
    /\ ~prog.done
    /\ ~prog.panicked
    /\ prog' = [prog EXCEPT !.done = TRUE, !.epc = "closing"]
    /\ UNCHANGED nonPgVars

\* the goroutine's select takes <-st.doneCh: close(st.statsCh), return;
\* closing the nil channel that Close left in the field panics
ProgressDone ==
    /\ prog.gpc = "recv"
    /\ prog.done
    /\ ~prog.panicked
    /\ prog' = IF prog.fieldNil
               THEN [prog EXCEPT !.panicked = TRUE]
               ELSE [prog EXCEPT !.gpc = "exit", !.chClosed = TRUE]
    /\ UNCHANGED nonPgVars

\* driverStmt.Close: <-st.statsCh returns on the closed channel
CloseJoined ==
    /\ prog.epc = "closing"
    /\ prog.gpc = "exit"
    /\ ~prog.panicked
    /\ prog' = [prog EXCEPT !.epc = "closed", !.fieldNil = TRUE]
    /\ UNCHANGED nonPgVars

ProgressNext ==
    \/ Tick
    \/ ProgressStart
    \/ ExecInitialStats
    \/ ProgressUpdate
    \/ ScheduleProgressUpdate
    \/ CloseDone
    \/ ProgressDone
    \/ CloseJoined

SpecProgress == ProgressInit /\ [][ProgressNext]_vars

\* C17: once exec has made its initial progress call, the statistics of the
\* POST response are with the callback: Update is running on them or has
\* been invoked with them.
C17_FirstStatsDelivered ==
    prog.epc \notin {"none", "initial"} =>
        \/ prog.gpc = "update" /\ prog.cur = 0
        \/ \E i \in 1..Len(prog.got) : prog.got[i] = 0

\* C28: the last call of scheduleProgressUpdate skipped the emission exactly
\* when less than the period had passed since the last emission and the
\* query state was the last reported one; when it did not skip, it made the
\* non-blocking send (handed over or dropped), returned, and left
\* LastCallbackTime at the time of the call and LastQueryState at the
\* reported state.
C28_SkipIffRecentAndSameState ==
    prog.call.n > 0 =>
        /\ prog.call.skipped <=>
              (prog.call.now - prog.call.last < prog.period
                  /\ prog.call.state = prog.call.lastState)
        /\ prog.call.skipped =>
              (prog.call.sent = "none" /\ prog.last = prog.call.last
                  /\ prog.lastState = prog.call.lastState)
        /\ ~prog.call.skipped =>
              /\ prog.call.sent \in {"sent", "dropped"}
              /\ prog.last = prog.call.now
              /\ prog.lastState = prog.call.state

\* C35: in no interleaving does a goroutine send on statsCh after the progress
\* goroutine has closed it: once Close has closed doneCh, neither fetch nor
\* the spooling response processor executes the send of
\* scheduleProgressUpdate on the closed channel.
C35_NoSendOnClosedStatsCh ==
    ~(prog.chClosed /\ prog.call.sent = "panic")

-----------------------------------------------------------------------------
(* SegmentFetcher.roundTrip: the download of one spooled segment.           *)

maxRetries == 5

\* what one sf.httpClient.Do(req) can give: a status code, a network error
\* that is a timeout, or another error
DoOutcomes == {"200", "502", "503", "504", "404", "timeout", "neterror"}
Retryable == {"502", "503", "504", "timeout"}

RetriesExhausted_Late(retries) == retries > maxRetries + 1

\* if retries > maxRetries
RetriesExhausted(retries) == retries > maxRetries

\* timer := time.NewTimer(0): the first attempt is due at once
SegFetchInit ==
    /\ ConnIdle
    /\ RowsIdle
    /\ PipeIdle
    /\ HrIdle
    /\ ArrivalsIdle
    /\ XcIdle
    /\ PgIdle
    /\ ClIdle
    /\ CodecIdle
    /\ sf = [pc |-> "timer", retries |-> 0, delayK |-> 0, tried |-> <<>>,
             result |-> "none", fspc |-> "roundTrip", out |-> "none",
             ack |-> "none"]

\* case <-timer.C
SegTimerFires ==
    /\ sf.pc = "timer"
    /\ sf' = [sf EXCEPT !.pc = "do"]
    /\ UNCHANGED nonSfVars

\* resp, err := sf.httpClient.Do(req) and what the loop does with it;
\* delayK counts the multiplications of the 200 ms delay by math.Phi
SegDo ==
    /\ sf.pc = "do"
    /\ \E o \in DoOutcomes :
          LET tried == Append(sf.tried, o)
          IN IF o \in Retryable
             THEN IF RetriesExhausted(sf.retries + 1)
                  THEN sf' = [sf EXCEPT !.pc = "done", !.tried = tried,
                                        !.retries = @ + 1,
                                        !.result = "ErrQueryFailed: max retries reached"]
                  ELSE sf' = [sf EXCEPT !.pc = "timer", !.tried = tried,
                                        !.retries = @ + 1,
                                        !.delayK = @ + 1]
             ELSE sf' = [sf EXCEPT !.pc = "done", !.tried = tried,
                                   !.result = IF o = "200" THEN "resp"
                                              ELSE "ErrQueryFailed"]
    /\ UNCHANGED nonSfVars

SegFetchNext ==
    \/ SegTimerFires
    \/ SegDo

SpecSegFetch == SegFetchInit /\ [][SegFetchNext]_vars

\* the timer fires after its delay and every Do returns
SpecSegFetchFair == SpecSegFetch /\ WF_vars(SegFetchNext)

SegFetchBounded ==
    /\ Len(sf.tried) <= maxRetries + 1
    /\ \A i \in 1..Len(sf.tried) :
          (i < Len(sf.tried) \/ sf.pc # "done") => sf.tried[i] \in Retryable
    /\ sf.result = "resp" <=>
          (sf.pc = "done" /\ sf.tried[Len(sf.tried)] = "200")
    /\ sf.result = "ErrQueryFailed: max retries reached" <=>
          (sf.pc = "done" /\ Len(sf.tried) = maxRetries + 1
              /\ sf.tried[Len(sf.tried)] \in Retryable)
    /\ (sf.pc = "done" /\ sf.tried[Len(sf.tried)] \notin Retryable \cup {"200"})
          => sf.result = "ErrQueryFailed"

\* C18: SegmentFetcher.roundTrip makes at most 6 attempts, going on only
\* after 502/503/504 or a network timeout; it returns the response at the
\* first 200, a query-failed error when the sixth attempt is again
\* retryable or at the first other failure, and it always returns.
C18_SegmentFetchRetries ==
    []SegFetchBounded /\ <>(sf.pc = "done")

\* six attempts, timeouts and gateway errors mixed, ended the call
C18_Witness ==
    /\ sf.pc = "done"
    /\ sf.tried = <<"502", "timeout", "503", "timeout", "504", "timeout">>
    /\ sf.result = "ErrQueryFailed: max retries reached"

-----------------------------------------------------------------------------
(* driverStmt.Close against the goroutines of the statement.  Only the      *)
(* control flow is kept: channels carry anonymous items, buffered channels  *)
(* are counts, an unbuffered send and its receive are one step.  A          *)
(* goroutine that has run its deferred calls is at "exit".                  *)

MaxClosePages == 1
MaxCloseSegs == 2
\* the capacity of st.segmentsToProccess (make(chan segmentToProccess, 1000)),
\* scaled down with the number of segments
MaxQueued == 1

CloseCfgs == {[bound |-> 1, workers |-> 1], [bound |-> 2, workers |-> 2]}

\* exec has returned (direct protocol), or fetch has started the spooling
\* workers and queued the segments of the first spooled response
CloseInit ==
    /\ ConnIdle
    /\ RowsIdle
    /\ PipeIdle
    /\ HrIdle
    /\ ArrivalsIdle
    /\ XcIdle
    /\ PgIdle
    /\ SfIdle
    /\ CodecIdle
    /\ \E c \in CloseCfgs, sp \in BOOLEAN :
          cl = [cpc |-> "open", spooled |-> sp, bound |-> c.bound,
                fpc |-> "get",
                pagesLeft |-> MaxClosePages - 1,
                ppc |-> "recv",
                rdpc |-> IF sp THEN "recv" ELSE "none",
                segsLeft |-> IF sp THEN MaxCloseSegs - 1 ELSE 0,
                toProc |-> IF sp THEN 1 ELSE 0,
                dpc |-> IF sp THEN "recv" ELSE "none",
                tokens |-> 0, metaN |-> 0, toDecN |-> 0,
                dl |-> [i \in 1..(IF sp THEN c.workers ELSE 0) |-> "recv"],
                dec |-> [i \in 1..(IF sp THEN c.workers ELSE 0) |-> "recv"],
                dlCancelled |-> FALSE, decCancelled |-> FALSE,
                spc |-> IF sp THEN "recv" ELSE "none",
                buf |-> 0, allLiveAtClose |-> FALSE, chansClosed |-> FALSE]

\* st.doneCh is closed
DoneClosed == cl.cpc # "open"

WorkersGone_NoWait(w) == TRUE

\* sync.WaitGroup.Wait over the workers w: every worker has called Done
WorkersGone(w) == \A i \in DOMAIN w : w[i] = "exit"

\* the channels closed by waitForAllSpoolingWorkersFinish, by its progress
ClQueueClosed == cl.rdpc \in {"waitDisp", "waitDl", "waitDec", "waitStream", "exit"}
ClMetaClosed == cl.rdpc \in {"waitDl", "waitDec", "waitStream", "exit"}
ClToDecodeClosed == cl.rdpc \in {"waitDec", "waitStream", "exit"}
ClDecodedClosed == cl.rdpc \in {"waitStream", "exit"}

DispatcherGone_NoWait(pc) == TRUE

\* <-qr.stmt.segmentDispatcherDoneCh, closed by the dispatcher's first defer
DispatcherGone(pc) == pc = "exit"

Exited(pc) == pc \in {"exit", "none"}

\* the workers of a pool run the same code: of those at the same place one
\* stands for all
Workers(w) == {i \in DOMAIN w : \A j \in DOMAIN w : j < i => w[j] # w[i]}

\* the goroutines started for the statement that have not returned
LiveWorkers ==
    (IF Exited(cl.fpc) THEN 0 ELSE 1) + (IF Exited(cl.ppc) THEN 0 ELSE 1)
    + (IF Exited(cl.dpc) THEN 0 ELSE 1) + (IF Exited(cl.spc) THEN 0 ELSE 1)
    + Cardinality({i \in DOMAIN cl.dl : cl.dl[i] # "exit"})
    + Cardinality({i \in DOMAIN cl.dec : cl.dec[i] # "exit"})

\* fetcher: newRequest and roundTrip of the GET return
StFetcherGet ==
    /\ cl.fpc = "get"
    /\ \E pc \in {"sendResp", "sendErr"} : cl' = [cl EXCEPT !.fpc = pc]
    /\ UNCHANGED nonClVars

\* st.httpResponses <- resp, received by the parser, which decodes it
StFetcherSend ==
    /\ cl.fpc = "sendResp"
    /\ cl.ppc = "recv"
    /\ \E pc \in {"sendURI", "sendErr"} :
          cl' = [cl EXCEPT !.fpc = "recv", !.ppc = pc]
    /\ UNCHANGED nonClVars

\* fetcher: case <-st.doneCh in either select; deferred close(httpResponses)
StFetcherDone ==
    /\ DoneClosed
    /\ cl.fpc \in {"recv", "sendResp"}
    /\ cl' = [cl EXCEPT !.fpc = "exit"]
    /\ UNCHANGED nonClVars

\* parser: st.nextURIs <- qresp.NextURI, received by the fetcher, which
\* returns on the empty URI
StParserSendURI ==
    /\ cl.ppc = "sendURI"
    /\ cl.fpc = "recv"
    /\ cl' = [cl EXCEPT !.ppc = "sendResp",
                        !.fpc = IF cl.pagesLeft > 0 THEN "get" ELSE "exit",
                        !.pagesLeft = IF @ > 0 THEN @ - 1 ELSE 0]
    /\ UNCHANGED nonClVars

\* parser: httpResponses is closed, resp == nil; deferred cancel() and
\* close(queryResponses)
StParserClosed ==
    /\ cl.ppc = "recv"
    /\ cl.fpc = "exit"
    /\ cl' = [cl EXCEPT !.ppc = "exit"]
    /\ UNCHANGED nonClVars

\* parser: case <-st.doneCh in one of its three selects
StParserDone ==
    /\ DoneClosed
    /\ cl.ppc \in {"recv", "sendURI", "sendResp"}
    /\ cl' = [cl EXCEPT !.ppc = "exit"]
    /\ UNCHANGED nonClVars

\* proccessSpollingSegments receives a response: initColumns may fail, the
\* response may carry a segment to queue
StReaderRecv ==
    /\ cl.rdpc = "recv"
    /\ cl.ppc = "sendResp"
    /\ \E pc \in {"recv", "sendErr"} \cup
                 (IF cl.segsLeft > 0 THEN {"queue"} ELSE {}) :
          cl' = [cl EXCEPT !.ppc = "recv", !.rdpc = pc]
    /\ UNCHANGED nonClVars

\* queueSpoolingSegments: qr.stmt.segmentsToProccess <- segment, a plain send
\* that waits while the channel's buffer is full
StReaderQueue ==
    /\ cl.rdpc = "queue"
    /\ cl.toProc < MaxQueued
    /\ cl' = [cl EXCEPT !.rdpc = "recv", !.toProc = @ + 1, !.segsLeft = @ - 1]
    /\ UNCHANGED nonClVars

\* the reader gets the zero response of the closed queryResponses and goes
\* through waitForAllSpoolingWorkersFinish
StReaderJoin ==
    /\ \/ /\ cl.rdpc = "recv"
          /\ cl.ppc = "exit"
          /\ cl' = [cl EXCEPT !.rdpc = "waitDisp"]
       \/ /\ cl.rdpc = "waitDisp"
          /\ DispatcherGone(cl.dpc)
          /\ cl' = [cl EXCEPT !.rdpc = "waitDl"]
       \/ /\ cl.rdpc = "waitDl"
          /\ WorkersGone(cl.dl)
          /\ cl' = [cl EXCEPT !.rdpc = "waitDec"]
       \/ /\ cl.rdpc = "waitDec"
          /\ WorkersGone(cl.dec)
          /\ cl' = [cl EXCEPT !.rdpc = "waitStream"]
       \/ /\ cl.rdpc = "waitStream"
          /\ cl.spc = "exit"
          /\ cl' = [cl EXCEPT !.rdpc = "exit"]
    /\ UNCHANGED nonClVars

\* dispatcher: takes a segment, pushes its token, reports metadata errors,
\* forwards the segment by its type
StDispatcher ==
    /\ \/ /\ cl.dpc = "recv"
          /\ cl.toProc > 0
          /\ cl' = [cl EXCEPT !.dpc = "token", !.toProc = @ - 1]
       \/ /\ cl.dpc = "recv"
          /\ cl.toProc = 0
          /\ ClQueueClosed
          /\ cl' = [cl EXCEPT !.dpc = "exit"]
       \/ /\ cl.dpc = "token"
          /\ cl.tokens < cl.bound
          /\ \E pc \in {"route", "sendErr"} :
                cl' = [cl EXCEPT !.dpc = pc, !.tokens = @ + 1]
       \/ /\ cl.dpc = "route"
          /\ \/ /\ cl.toDecN < cl.bound
                /\ cl' = [cl EXCEPT !.dpc = "recv", !.toDecN = @ + 1]
             \/ /\ cl.metaN < cl.bound
                /\ cl' = [cl EXCEPT !.dpc = "recv", !.metaN = @ + 1]
             \/ cl' = [cl EXCEPT !.dpc = "recv"]
    /\ UNCHANGED nonClVars

\* dispatcher: case <-st.doneCh in the outer select or at the token push
StDispatcherDone ==
    /\ DoneClosed
    /\ cl.dpc \in {"recv", "token"}
    /\ cl' = [cl EXCEPT !.dpc = "exit"]
    /\ UNCHANGED nonClVars

\* a download worker: takes metadata, fetches the segment, forwards it
StDownload ==
    /\ \E i \in Workers(cl.dl) :
          \/ /\ cl.dl[i] = "recv"
             /\ cl.metaN > 0
             /\ cl' = [cl EXCEPT !.dl[i] = "fetch", !.metaN = @ - 1]
          \/ /\ cl.dl[i] = "recv"
             /\ cl.metaN = 0
             /\ ClMetaClosed
             /\ cl' = [cl EXCEPT !.dl[i] = "exit"]
          \/ /\ cl.dl[i] = "fetch"
             /\ \E pc \in {"send", "sendErr"} : cl' = [cl EXCEPT !.dl[i] = pc]
          \/ /\ cl.dl[i] = "send"
             /\ cl.toDecN < cl.bound
             /\ cl' = [cl EXCEPT !.dl[i] = "recv", !.toDecN = @ + 1]
    /\ UNCHANGED nonClVars

\* a download worker: case <-st.doneCh or <-ctx.Done() in either select
StDownloadDone ==
    /\ DoneClosed \/ cl.dlCancelled
    /\ \E i \in Workers(cl.dl) :
          /\ cl.dl[i] \in {"recv", "send"}
          /\ cl' = [cl EXCEPT !.dl[i] = "exit"]
    /\ UNCHANGED nonClVars

\* a decoder worker: takes a segment and decodes it; on failure it cancels
\* the decoder scope and reports the error
StDecoder ==
    /\ \E i \in Workers(cl.dec) :
          \/ /\ cl.dec[i] = "recv"
             /\ cl.toDecN > 0
             /\ \/ cl' = [cl EXCEPT !.dec[i] = "send", !.toDecN = @ - 1]
                \/ cl' = [cl EXCEPT !.dec[i] = "sendErr", !.toDecN = @ - 1,
                                    !.decCancelled = TRUE]
          \/ /\ cl.dec[i] = "recv"
             /\ cl.toDecN = 0
             /\ ClToDecodeClosed
             /\ cl' = [cl EXCEPT !.dec[i] = "exit"]
    /\ UNCHANGED nonClVars

\* a decoder worker: case <-st.doneCh or <-ctx.Done() in either select
StDecoderDone ==
    /\ DoneClosed \/ cl.decCancelled
    /\ \E i \in Workers(cl.dec) :
          /\ cl.dec[i] \in {"recv", "send"}
          /\ cl' = [cl EXCEPT !.dec[i] = "exit"]
    /\ UNCHANGED nonClVars

\* streamer: receives a decoded segment; it is the expected one (emit), or
\* it is not and the buffer has room (continue) or is full (report)
StStreamerRecv ==
    /\ cl.spc = "recv"
    /\ \E i \in Workers(cl.dec) :
          /\ cl.dec[i] = "send"
          /\ \E pc \in {"sendRows"} \cup
                       (IF BufferFull(cl.buf + 1, cl.bound)
                        THEN {"sendErr"} ELSE {"recv"}) :
                cl' = [cl EXCEPT !.dec[i] = "recv", !.buf = @ + 1, !.spc = pc]
    /\ UNCHANGED nonClVars

\* streamer: decodedSegments is closed; deferred close(spoolingProcesserDone)
\* and close(spoolingRowsChannel)
StStreamerClosed ==
    /\ cl.spc = "recv"
    /\ ClDecodedClosed
    /\ cl' = [cl EXCEPT !.spc = "exit"]
    /\ UNCHANGED nonClVars

\* streamer: <-segmentThrottleCh (a token, or the zero value of the closed
\* channel), then the emission loop goes on or ends
StStreamerRelease ==
    /\ cl.spc = "release"
    /\ cl.tokens > 0 \/ cl.dpc = "exit"
    /\ \E pc \in {"recv"} \cup (IF cl.buf > 1 THEN {"sendRows"} ELSE {}) :
          cl' = [cl EXCEPT !.spc = pc, !.buf = @ - 1,
                           !.tokens = IF @ > 0 THEN @ - 1 ELSE 0]
    /\ UNCHANGED nonClVars

\* streamer: case <-qr.doneCh in one of its three selects
StStreamerDone ==
    /\ DoneClosed
    /\ cl.spc \in {"recv", "sendRows", "release"}
    /\ cl' = [cl EXCEPT !.spc = "exit"]
    /\ UNCHANGED nonClVars

\* the caller's Next while the statement is open: in the direct protocol
\* its fetch receives a response, in the spooling protocol it receives a
\* batch of rows from the streamer
StCallerNext ==
    /\ cl.cpc = "open"
    /\ \/ /\ ~cl.spooled
          /\ cl.ppc = "sendResp"
          /\ cl' = [cl EXCEPT !.ppc = "recv"]
       \/ /\ cl.spc = "sendRows"
          /\ cl' = [cl EXCEPT !.spc = "release"]
    /\ UNCHANGED nonClVars

\* the state after a goroutine's st.errors <- err has been received
AfterError ==
    {[cl EXCEPT !.fpc = "exit"] : x \in {y \in {1} : cl.fpc = "sendErr"}}
    \cup {[cl EXCEPT !.ppc = "exit"] : x \in {y \in {1} : cl.ppc = "sendErr"}}
    \cup {[cl EXCEPT !.rdpc = "recv"] : x \in {y \in {1} : cl.rdpc = "sendErr"}}
    \cup {[cl EXCEPT !.dpc = "route"] : x \in {y \in {1} : cl.dpc = "sendErr"}}
    \cup {[cl EXCEPT !.spc = "recv"] : x \in {y \in {1} : cl.spc = "sendErr"}}
    \cup {[cl EXCEPT !.dl[i] = "exit"] :
             i \in {j \in Workers(cl.dl) : cl.dl[j] = "sendErr"}}
    \cup {[cl EXCEPT !.dec[i] = "exit"] :
             i \in {j \in Workers(cl.dec) : cl.dec[j] = "sendErr"}}

\* st.errors <- err is received: by the caller's fetch or Next while the
\* statement is open (Next in spooled mode then cancels both scopes), by
\* the draining goroutine of Close until close(st.errors)
StErrorReceived ==
    /\ cl.cpc # "returned"
    /\ \E n \in AfterError :
          cl' = IF cl.cpc = "open" /\ cl.spooled
                THEN [n EXCEPT !.dlCancelled = TRUE, !.decCancelled = TRUE]
                ELSE n
    /\ UNCHANGED nonClVars

\* driverStmt.Close: close(st.doneCh), the draining goroutine is started
StCloseStart ==
    /\ cl.cpc = "open"
    /\ cl' = [cl EXCEPT !.cpc = "rangeQR", !.allLiveAtClose = (LiveWorkers = 4 + Len(cl.dl) + Len(cl.dec))]
    /\ UNCHANGED nonClVars

\* for range st.queryResponses
StCloseRangeQR ==
    /\ cl.cpc = "rangeQR"
    /\ \/ /\ cl.ppc = "sendResp"
          /\ cl' = [cl EXCEPT !.ppc = "recv"]
       \/ /\ cl.ppc = "exit"
          /\ cl' = [cl EXCEPT !.cpc = "rangeHR"]
    /\ UNCHANGED nonClVars

\* for range st.httpResponses, then the two cancel functions if they are set
StCloseRangeHR ==
    /\ cl.cpc = "rangeHR"
    /\ \/ /\ cl.fpc = "sendResp"
          /\ cl' = [cl EXCEPT !.fpc = "recv"]
       \/ /\ cl.fpc = "exit"
          /\ cl' = IF cl.spooled
                   THEN [cl EXCEPT !.cpc = "rangeRows", !.dlCancelled = TRUE,
                                   !.decCancelled = TRUE]
                   ELSE [cl EXCEPT !.cpc = "waitDl"]
    /\ UNCHANGED nonClVars

\* for range st.spoolingRowsChannel
StCloseRangeRows ==
    /\ cl.cpc = "rangeRows"
    /\ \/ /\ cl.spc = "sendRows"
          /\ cl' = [cl EXCEPT !.spc = "release"]
       \/ /\ cl.spc = "exit"
          /\ cl' = [cl EXCEPT !.cpc = "rangeDecoded"]
    /\ UNCHANGED nonClVars

\* for range st.decodedSegments
StCloseRangeDecoded ==
    /\ cl.cpc = "rangeDecoded"
    /\ \/ \E i \in Workers(cl.dec) :
             /\ cl.dec[i] = "send"
             /\ cl' = [cl EXCEPT !.dec[i] = "recv"]
       \/ /\ ClDecodedClosed
          /\ cl' = [cl EXCEPT !.cpc = "rangeToDecode"]
    /\ UNCHANGED nonClVars

\* for range over spooledSegmentsToDecode, spooledSegmentsMetadata and
\* segmentsToProccess, one after the other
StCloseDrain ==
    /\ \/ /\ cl.cpc = "rangeToDecode"
          /\ IF cl.toDecN > 0
             THEN cl' = [cl EXCEPT !.toDecN = @ - 1]
             ELSE /\ ClToDecodeClosed
                  /\ cl' = [cl EXCEPT !.cpc = "rangeMeta"]
       \/ /\ cl.cpc = "rangeMeta"
          /\ IF cl.metaN > 0
             THEN cl' = [cl EXCEPT !.metaN = @ - 1]
             ELSE /\ ClMetaClosed
                  /\ cl' = [cl EXCEPT !.cpc = "rangeToProcess"]
       \/ /\ cl.cpc = "rangeToProcess"
          /\ IF cl.toProc > 0
             THEN cl' = [cl EXCEPT !.toProc = @ - 1]
             ELSE /\ ClQueueClosed
                  /\ cl' = [cl EXCEPT !.cpc = "waitDl"]
    /\ UNCHANGED nonClVars

\* st.waitDownloadSegmentsWorkers.Wait(), st.waitSegmentDecodersWorkers.Wait(),
\* then close(st.nextURIs), close(st.errors) and Close returns
StCloseWait ==
    /\ \/ /\ cl.cpc = "waitDl"
          /\ WorkersGone(cl.dl)
          /\ cl' = [cl EXCEPT !.cpc = "waitDec"]
       \/ /\ cl.cpc = "waitDec"
          /\ WorkersGone(cl.dec)
          /\ cl' = [cl EXCEPT !.cpc = "returned", !.chansClosed = TRUE]
    /\ UNCHANGED nonClVars

CloseNext ==
    \/ StFetcherGet
    \/ StFetcherSend
    \/ StFetcherDone
    \/ StParserSendURI
    \/ StParserClosed
    \/ StParserDone
    \/ StReaderRecv
    \/ StReaderQueue
    \/ StReaderJoin
    \/ StDispatcher
    \/ StDispatcherDone
    \/ StDownload
    \/ StDownloadDone
    \/ StDecoder
    \/ StDecoderDone
    \/ StStreamerRecv
    \/ StStreamerClosed
    \/ StStreamerRelease
    \/ StStreamerDone
    \/ StCallerNext
    \/ StErrorReceived
    \/ StCloseStart
    \/ StCloseRangeQR
    \/ StCloseRangeHR
    \/ StCloseRangeRows
    \/ StCloseRangeDecoded
    \/ StCloseDrain
    \/ StCloseWait

SpecClose == CloseInit /\ [][CloseNext]_vars

\* C19: once nextURIs and errors are closed, and so when Close has
\* returned, the fetcher, the parser, the dispatcher, every download worker,
\* every decoder worker and the streamer have returned.
C19_CloseJoinsWorkers ==
    (cl.cpc # "none" /\ (cl.chansClosed \/ cl.cpc = "returned"))
        => LiveWorkers = 0

\* Close was called on a spooled statement while all of its goroutines were
\* running (fetcher, parser, dispatcher, streamer, two downloaders, two
\* decoders), and has returned
C19_Witness ==
    /\ cl.cpc = "returned"
    /\ cl.spooled
    /\ Len(cl.dl) = 2
    /\ cl.allLiveAtClose

-----------------------------------------------------------------------------
(* Requests of one connection in flight.  The fetcher is inside             *)
(* Conn.newRequest / Conn.roundTrip while it is at "get"; the DELETE of     *)
(* driverRows.Close runs inside the step that counts it.                    *)

\* C20: no two executions of newRequest/roundTrip of the connection overlap:
\* the cancel DELETE is never sent while the fetcher is in its paging GET.
C20_RequestsSerialized ==
    [][deletes' # deletes => fpc # "get"]_vars


-----------------------------------------------------------------------------
(* Claims about the errors the spooling workers publish *)

\* C21: whenever a decoded segment reaches the streamer with a rowOffset other
\* than nextExpectedOffset and the buffer, that segment included, holds
\* spoolingMaxOutOfOrderSegments segments, the streamer goes on to publish the
\* out-of-order error on st.errors; and the streamer is never waiting for
\* input on a full buffer unless Next has been handed that error.
C21_FullBufferReported ==
    /\ [][\A s \in dec.send :
            (/\ spc = "recv"
             /\ dec' = [dec EXCEPT !.send = @ \ {s}, !.idle = @ + 1]
             /\ Off(s) # nextExpectedOffset
             /\ Len(buffer) + 1 >= cfg.bound)
            => (spc' = "err" /\ buffer' = Append(buffer, s))]_vars
    /\ []((spc = "recv" /\ Len(buffer) >= cfg.bound)
            => qrErr = "ErrOutOfOrder")

\* the streamer is publishing the error with a buffer of two segments, none
\* of them the expected one
C21_Witness ==
    /\ spc = "err"
    /\ cfg.bound >= 2
    /\ Len(buffer) = cfg.bound
    /\ \A i \in 1..Len(buffer) : Off(buffer[i]) # nextExpectedOffset

\* C22: the streamer's buffer never holds more than
\* spoolingMaxOutOfOrderSegments segments, also after the out-of-order error
\* was published and the streamer went back to receiving.
C22_BufferBounded ==
    Len(buffer) <= cfg.bound

\* the error was handed to Next, the streamer is receiving again and its
\* buffer is at the bound
C22_Witness ==
    /\ spc = "recv"
    /\ qrErr = "ErrOutOfOrder"
    /\ cfg.bound >= 2
    /\ Len(buffer) = cfg.bound

\* C23: no segment whose metadata could not be parsed is in the download
\* queue or in the decode queue.
C23_NoZeroMetadataDownstream ==
    \A i \in Range(toDecode) \cup Range(metaCh) : segs[i].fault # "meta"

\* C24: a worker that has published an error on st.errors exits: the
\* dispatcher and the streamer do not go back to their loops.
C24_PublisherExits ==
    [][/\ (dpc = "errMeta" /\ dpc' # "errMeta") => dpc' = "exit"
       /\ (spc = "err" /\ spc' # "err") => spc' = "exit"]_vars


-----------------------------------------------------------------------------
(* The spooling pipeline with a scheduler that lets every goroutine that    *)
(* can take a step take one, and a caller that keeps calling Next.          *)

PipeFairness ==
    /\ WF_vars(QueueSegment) /\ WF_vars(JoinStart) /\ WF_vars(JoinDispatcher)
    /\ WF_vars(JoinDownloaders) /\ WF_vars(JoinDecoders)
    /\ WF_vars(JoinStreamer)
    /\ WF_vars(DispatcherRecv) /\ WF_vars(DispatcherToken)
    /\ WF_vars(DispatcherRoute)
    /\ WF_vars(DownloadRecv) /\ WF_vars(DownloadSend)
    /\ WF_vars(DownloadCancelled)
    /\ WF_vars(DecoderRecv) /\ WF_vars(DecoderCancelled)
    /\ WF_vars(StreamerRecv) /\ WF_vars(StreamerClosed)
    /\ WF_vars(StreamerRelease)
    /\ WF_vars(PipeNextRecv) /\ WF_vars(PipeNextRow) /\ WF_vars(PipeNextEOF)
    /\ WF_vars(PipeNextErr)

SpecPipeFair == SpecPipe /\ PipeFairness

\* C26: a decoder worker that is publishing a decode error has cancelled the
\* decoder scope, and its error is eventually received by Next and returned.
C26_DecodeErrorReachesNext ==
    /\ [](dec.err # {} => decCancelled)
    /\ \A s \in 1..MaxSegs :
          (s \in dec.err) ~> (s \notin dec.err /\ qrErr = "ErrDecode")

\* C30: once the download scope is cancelled every download worker
\* eventually returns, and once the decoder scope is cancelled every decoder
\* worker eventually returns.
C30_WorkersExitOnCancel ==
    /\ dlCancelled ~> PoolGone(dl)
    /\ decCancelled ~> PoolGone(dec)


-----------------------------------------------------------------------------
(* SegmentFetcher.fetchSegment: the request headers, roundTrip, the read of *)
(* the body, and the goroutine that acknowledges the segment.               *)

HeaderOutcomes == {"ok", "unsupported header type", "multiple values"}
ReadOutcomes == {"ok", "read error"}
AckRequestOutcomes == {"ok", "bad ackUri"}

SpawnsAck_Always(res, readOutcome) == TRUE

\* the go statement is reached only past the returns that follow roundTrip
\* and io.ReadAll
SpawnsAck(res, readOutcome) == res = "resp" /\ readOutcome = "ok"

\* a download worker calls fetchSegment
FetchSegInit ==
    /\ ConnIdle
    /\ RowsIdle
    /\ PipeIdle
    /\ HrIdle
    /\ ArrivalsIdle
    /\ XcIdle
    /\ PgIdle
    /\ ClIdle
    /\ CodecIdle
    /\ sf = [pc |-> "none", retries |-> 0, delayK |-> 0, tried |-> <<>>,
             result |-> "none", fspc |-> "headers", out |-> "none",
             ack |-> "none"]

\* the loop over sf.spooledMetadata.headers, then the call of roundTrip
FetchSegHeaders ==
    /\ sf.fspc = "headers"
    /\ \E h \in HeaderOutcomes :
          sf' = IF h = "ok"
                THEN [sf EXCEPT !.fspc = "roundTrip", !.pc = "timer"]
                ELSE [sf EXCEPT !.fspc = "returned", !.out = h]
    /\ UNCHANGED nonSfVars

\* roundTrip has returned: on an error fetchSegment returns it; else
\* io.ReadAll(resp.Body), and on success go func() { ack }() and return data
FetchSegRead ==
    /\ sf.fspc = "roundTrip"
    /\ sf.pc = "done"
    /\ \E r \in ReadOutcomes :
          sf' = [sf EXCEPT
                   !.fspc = "returned",
                   !.out = IF sf.result # "resp" THEN "error fetching segment"
                           ELSE IF r # "ok" THEN "error reading response body"
                           ELSE "data",
                   !.ack = IF SpawnsAck(sf.result, r) THEN "spawned"
                           ELSE "none"]
    /\ UNCHANGED nonSfVars

\* the goroutine: http.NewRequestWithContext(sf.ctx, "GET", ackUri, nil) and
\* the copy of the request headers
AckRequest ==
    /\ sf.ack = "spawned"
    /\ \E a \in AckRequestOutcomes :
          sf' = [sf EXCEPT !.ack = IF a = "ok" THEN "issued" ELSE "dropped"]
    /\ UNCHANGED nonSfVars

\* the goroutine: sf.httpClient.Do(ackReq); an error is dropped, a response
\* of any status is closed
AckDo ==
    /\ sf.ack = "issued"
    /\ \E o \in DoOutcomes :
          sf' = [sf EXCEPT !.ack = IF o \in {"timeout", "neterror"}
                                   THEN "failed" ELSE "answered"]
    /\ UNCHANGED nonSfVars

FetchSegNext ==
    \/ FetchSegHeaders
    \/ SegTimerFires
    \/ SegDo
    \/ FetchSegRead
    \/ AckRequest
    \/ AckDo

SpecFetchSeg == FetchSegInit /\ [][FetchSegNext]_vars

-----------------------------------------------------------------------------
(* decodeSegment and decompressSegment.  A payload is described by what its *)
(* bytes are (JSON text, a zstd frame, an LZ4 block, or none of these), by  *)
(* its length, and by the length of the JSON text it holds.                 *)

MaxDataLen == 2

Encodings == {"json", "json+zstd", "json+lz4", "json+gzip"}
SupportedEncodings == {"json", "json+zstd", "json+lz4"}
DataKinds == {"json", "zstd", "lz4", "garbage"}

Payloads ==
    {d \in [kind : DataKinds, len : 1..MaxDataLen, ulen : 0..MaxDataLen] :
        /\ d.kind = "json" => d.ulen = d.len
        /\ d.kind = "garbage" => d.ulen = 0
        /\ d.kind \in {"zstd", "lz4"} => d.ulen >= 1}

SegmentMetadatas ==
    [segmentSize : 0..MaxDataLen, uncompressedSize : 0..MaxDataLen]

Failed(e) == [err |-> e, data |-> [kind |-> "garbage", len |-> 0, ulen |-> 0]]

\* if int64(len(decompressedData)) != metadata.uncompressedSize
DecompressedSizeCheck(n, metadata) ==
    IF n # metadata.uncompressedSize
    THEN Failed("decompressed size mismatch")
    ELSE [err |-> "nil", data |-> [kind |-> "json", len |-> n, ulen |-> n]]

decompressSegment(data, encoding, metadata) ==
    IF metadata.uncompressedSize = 0
    THEN [err |-> "nil", data |-> data]
    ELSE CASE encoding = "json+zstd" ->
                IF data.kind # "zstd"
                THEN Failed("failed to decompress zstd segment")
                ELSE DecompressedSizeCheck(data.ulen, metadata)
           [] encoding = "json+lz4" ->
                \* lz4.UncompressBlock into a buffer of uncompressedSize bytes
                IF data.kind # "lz4" \/ data.ulen > metadata.uncompressedSize
                THEN Failed("failed to decompress LZ4 segment")
                ELSE DecompressedSizeCheck(data.ulen, metadata)
           [] OTHER -> Failed("unsupported segment encoder")

decodeSegment(data, encoding, metadata) ==
    IF data.len # metadata.segmentSize
    THEN "segment size mismatch"
    ELSE LET d == decompressSegment(data, encoding, metadata)
         IN IF d.err # "nil" THEN d.err
            ELSE IF d.data.kind # "json"
                 THEN "failed to decode segment into JSON"
                 ELSE "rows"

\* a decoder worker holds a segment to decode
CodecInit ==
    /\ ConnIdle
    /\ RowsIdle
    /\ PipeIdle
    /\ HrIdle
    /\ ArrivalsIdle
    /\ XcIdle
    /\ PgIdle
    /\ SfIdle
    /\ ClIdle
    /\ \E d \in Payloads, enc \in Encodings, m \in SegmentMetadatas :
          codec = [pc |-> "call", data |-> d, encoding |-> enc,
                   metadata |-> m, decompressed |-> "none", out |-> "none"]

\* segment, err := decodeSegment(data, encoding, metadata)
DecodeSegment ==
    /\ codec.pc = "call"
    /\ codec' = [codec EXCEPT
                   !.pc = "done",
                   !.decompressed =
                       IF codec.data.len # codec.metadata.segmentSize
                       THEN "not called"
                       ELSE decompressSegment(codec.data, codec.encoding,
                                              codec.metadata).err,
                   !.out = decodeSegment(codec.data, codec.encoding,
                                         codec.metadata)]
    /\ UNCHANGED nonCodecVars

SpecCodec == CodecInit /\ [][DecodeSegment]_vars

\* C27: decompressSegment, whenever decodeSegment calls it, fails with the
\* unsupported-encoding error exactly when the declared encoding is not one
\* of json, json+zstd, json+lz4, whatever the metadata.
C27_UnsupportedIffUnknown ==
    (codec.pc = "done" /\ codec.decompressed # "not called") =>
        (codec.decompressed = "unsupported segment encoder"
            <=> codec.encoding \notin SupportedEncodings)


-----------------------------------------------------------------------------
(* The direct protocol with a scheduler that lets the fetcher and the       *)
(* parser run, and a caller that keeps calling Next: whatever else it       *)
(* calls, it calls Next again and again.                                    *)

SpecRowsFair ==
    /\ SpecRows
    /\ WF_vars(ExecSeed)
    /\ WF_vars(FetcherGet)
    /\ WF_vars(FetcherSend)
    /\ WF_vars(ParserClosed)
    /\ WF_vars(ParserSendURI)
    /\ WF_vars(FetchResp)
    /\ WF_vars(FetchEOF)
    /\ SF_vars(RowsNext)

\* a request or a response failed, the context was cancelled, or the caller
\* closed the rows
DirectDisturbed ==
    \/ qctx # "live"
    \/ closes # <<>>
    \/ fpc \in {"err", "cancelled"}
    \/ ppc = "err"
    \/ qrErr \notin {"nil", "EOF"}
    \/ qpc = "failed"

\* every row of every page, in the order of the nextUri chain
AllRows ==
    LET RECURSIVE Upto(_)
        Upto(i) == IF i = 0 THEN <<>>
                   ELSE Upto(i - 1) \o [k \in 1..pages[i].rows |-> <<i, k>>]
    IN Upto(Len(pages))

\* C29: in a direct query whose requests all succeed and whose caller keeps
\* calling Next, eventually the fetcher has returned on the empty URI, the
\* parser has returned on the closed response channel, every row of every
\* page, the last one included, was handed out, and Next returned io.EOF.
C29_DirectTerminates ==
    <>(\/ DirectDisturbed
       \/ /\ fpc = "exit"
          /\ ppc = "exit"
          /\ fUri = 0
          /\ delivered = AllRows
          /\ qrErr = "EOF"
          /\ ret = [op |-> "Next", err |-> "EOF"])

\* two pages, the last one with rows, all read, and Next returned io.EOF
C29_Witness ==
    /\ ~DirectDisturbed
    /\ Len(pages) = 2
    /\ pages[2].rows = 2
    /\ delivered = AllRows
    /\ fpc = "exit"
    /\ ppc = "exit"
    /\ ret = [op |-> "Next", err |-> "EOF"]


-----------------------------------------------------------------------------
(* Claims about the end of a spooled stream *)

\* C31: a spooled query never ends with io.EOF while decoded segments are
\* still unemitted in the streamer's reorder buffer: when the stream ends with
\* a gap in the row offsets and the buffer is not full, the caller gets an
\* error and not a silent end of stream.
C31_NoEOFWithBufferedSegments ==
    (qpc = "spool" /\ ret = [op |-> "Next", err |-> "EOF"]) => buffer = <<>>


\* the sum of the row counts of the segments listed before segment i
RECURSIVE RowsBefore(_)
RowsBefore(i) == IF i <= 1 THEN 0 ELSE RowsBefore(i - 1) + RowsOf(i - 1)

\* the response lists segments of known types in row-offset order with
\* contiguous offsets, nothing fails to download or to decode, and there are
\* no more workers than out-of-order slots
ContiguousInput ==
    /\ \A i \in 1..Len(segs) :
          /\ segs[i].type \in SegTypes
          /\ segs[i].fault = "none"
          /\ Off(i) = RowsBefore(i)
    /\ cfg.workers <= cfg.bound

\* every worker, the streamer and the response processor have returned
PipelineDone ==
    /\ rpc = "exit" /\ dpc = "exit" /\ spc = "exit"
    /\ PoolGone(dl) /\ PoolGone(dec)

-----------------------------------------------------------------------------
(* Termination of driverStmt.Close: every goroutine that can take a step    *)
(* eventually takes one.                                                    *)

SpecCloseFair == SpecClose /\ WF_vars(CloseNext)

\* C33: driverStmt.Close eventually returns from every state of the statement
\* in which it is called: mid-stream in the direct protocol, while spooling
\* workers are active, while workers are blocked publishing an error, and
\* while the response processor is queueing segments on a full
\* segmentsToProccess.
C33_CloseReturns ==
    (cl.cpc \notin {"none", "open"}) ~> (cl.cpc = "returned")


-----------------------------------------------------------------------------
(* Claims about the row iterator *)

\* C34: for one query at most one DELETE /v1/query/{id} is issued over any
\* sequence of Next, Columns and Close calls, also when a context
\* cancellation was surfaced by Next or fetch before the caller calls Close.
C34_AtMostOneDelete ==
    deletes <= 1


-----------------------------------------------------------------------------
(* Claims about the closing of the statement's channels *)

\* C36: no goroutine sends on a statement channel that is already closed:
\* every channel is closed only after all of its senders have returned, in
\* every interleaving of normal completion, worker errors and Close.
\* spooledSegmentsMetadata is closed after the dispatcher, its sender, has
\* returned; spooledSegmentsToDecode after the dispatcher and the download
\* workers; decodedSegments after the decoder workers; errors and nextURIs
\* after the fetcher, the parser, the dispatcher, the workers and the streamer
\* have returned and the response processor has made its last send.
C36_ClosedAfterSenders ==
    /\ ClMetaClosed => cl.dpc = "exit"
    /\ ClToDecodeClosed => (cl.dpc = "exit" /\ WorkersGone(cl.dl))
    /\ ClDecodedClosed => WorkersGone(cl.dec)
    /\ cl.cpc # "none" /\ cl.chansClosed =>
          /\ LiveWorkers = 0
          /\ cl.rdpc \in {"none", "waitStream", "exit"}

\* every segment of the responses was queued, Close was called when some of
\* the goroutines had already returned, the response processor closed the
\* channels of the stages and returned, and Close then closed nextURIs and
\* errors
C36_Witness ==
    /\ cl.chansClosed
    /\ cl.spooled
    /\ Len(cl.dl) = 2
    /\ cl.rdpc = "exit"
    /\ cl.segsLeft = 0
    /\ ~cl.allLiveAtClose


-----------------------------------------------------------------------------
(* The row iterator in both protocols: a direct query from exec on, or a    *)
(* spooled query from the first spooled response on; every goroutine that   *)
(* can take a step eventually takes one, and the caller keeps calling Next.  *)

IterInit == RowsInit \/ PipeInit

IterStep ==
    \/ qpc # "spool" /\ RowsStep
    \/ PipeStep

IterFairness ==
    /\ PipeFairness
    /\ WF_vars(ExecSeed) /\ WF_vars(FetcherGet) /\ WF_vars(FetcherSend)
    /\ WF_vars(ParserClosed) /\ WF_vars(ParserSendURI)
    /\ WF_vars(FetchResp) /\ WF_vars(FetchEOF) /\ WF_vars(FetchErr)
    /\ SF_vars(RowsNext)

SpecIterFair == IterInit /\ [][IterStep]_vars /\ IterFairness

\* a goroutine of the statement is in its send on st.errors
Published ==
    \/ fpc \in {"err", "cancelled"}
    \/ ppc = "err"
    \/ dpc = "errMeta"
    \/ dl.err # {}
    \/ dec.err # {}
    \/ spc = "err"

\* C37: no published error is lost in favour of a clean end of stream: while
\* a worker is in its send on the error channel no io.EOF was produced for
\* the iterator and Next has not returned io.EOF, and when the caller keeps
\* calling Next (it got an iterator and does not close it) Next eventually
\* returns an error other than io.EOF, in the direct and in the spooling
\* protocol.
C37_PublishedErrorNotLost ==
    /\ [](Published => ~eofProduced)
    /\ []((Published /\ closes = <<>>) => ret # [op |-> "Next", err |-> "EOF"])
    /\ Published ~> \/ qpc = "failed"
                    \/ closes # <<>>
                    \/ ret.op = "Next" /\ ret.err \notin {"nil", "EOF"}

\* a download worker's error was handed to Next while a decoded segment was
\* waiting in the streamer's buffer
C37_Witness ==
    /\ qpc = "spool"
    /\ ret = [op |-> "Next", err |-> "ErrDownload"]
    /\ ~Published
    /\ buffer # <<>>
    /\ ~eofProduced


-----------------------------------------------------------------------------
(* Frame claims about the ingestion of response headers by Conn.roundTrip *)

\* C39: when Conn.roundTrip fails with ErrUnsupportedHeader the connection's
\* outbound headers are the same as before the request: the Set-Catalog,
\* Set-Schema, Set-Session, Clear-Session, Added-Prepare and
\* Deallocated-Prepare headers of the rejected response are not applied.
C39_RejectedResponseNotApplied ==
    (cpc = "returned" /\ result.err = "ErrUnsupportedHeader")
        => httpHeaders = hdrsBefore


\* the entries of vs, in order, whose key is not k
KeepOtherKeys(vs, k) == SelectSeq(vs, LAMBDA e : KeyOf(e) # k)

\* the values of request header n before the removal: what the connection
\* held, and the entry the same response adds through src
BeforeRemoval(n, src) ==
    hdrsBefore[n] \o (IF HeaderGet(lastResp.hdr, src) # NoStr
                      THEN <<HeaderGet(lastResp.hdr, src)>> ELSE <<>>)

\* the request headers a response has a header for
Touched(resp) ==
    {hSession : x \in {n \in {rSetSession, rClearSession} : resp.hdr[n] # <<>>}}
    \cup {hPrepared : x \in {n \in {rAddedPrepare, rDeallocatedPrepare} :
                                resp.hdr[n] # <<>>}}
    \cup {hCatalog : x \in {n \in {rSetCatalog} : resp.hdr[n] # <<>>}}
    \cup {hSchema : x \in {n \in {rSetSchema} : resp.hdr[n] # <<>>}}

\* C40: ingesting Clear-Session k (Deallocated-Prepare n) removes exactly the
\* Session (Prepared-Statement) entries whose key is k (whose name is n):
\* entries with any other key, keys of which k is a proper prefix included,
\* are kept in their relative order, and every connection header the response
\* has nothing for is unchanged.
C40_RemovesExactKeyOnly ==
    Ingested200 =>
        /\ HeaderGet(lastResp.hdr, rClearSession) # NoStr =>
              httpHeaders[hSession] =
                  KeepOtherKeys(BeforeRemoval(hSession, rSetSession),
                                HeaderGet(lastResp.hdr, rClearSession))
        /\ HeaderGet(lastResp.hdr, rDeallocatedPrepare) # NoStr =>
              httpHeaders[hPrepared] =
                  KeepOtherKeys(BeforeRemoval(hPrepared, rAddedPrepare),
                                HeaderGet(lastResp.hdr, rDeallocatedPrepare))
        /\ \A n \in ReqNames \ Touched(lastResp) :
              httpHeaders[n] = hdrsBefore[n]

\* Clear-Session a arrived alone on a connection that held a=x and ab=x: the
\* entry of key ab is kept
C40_Witness ==
    /\ Ingested200
    /\ HeaderGet(lastResp.hdr, rClearSession) = KeyA
    /\ Touched(lastResp) = {hSession}
    /\ Range(hdrsBefore[hSession]) = Entries
    /\ httpHeaders[hSession] = <<Entry(KeyAB, <<"x">>)>>
    /\ httpHeaders[hPrepared] # <<>>

=============================================================================
